---- MODULE Spec2Model ----
(***************************************************************************)
(* KDP PDF engine: the paginated layout engine (engine.ts), the block      *)
(* renderers (blocks.ts), the margin resolver (margins.ts) and the         *)
(* compliance checker (compliance.ts).                                     *)
(*                                                                         *)
(* Units.  Lengths on the page are integers in tenths of a point (dpt),    *)
(* so that 11pt * 1.4 = 15.4pt is the integer 154.  Margins in inches are  *)
(* integers in thousandths of an inch (0.375in = 375).  Text is a sequence *)
(* of paragraphs (the pieces between '\n'), a paragraph is a sequence of   *)
(* words, and a word is its number of glyphs; the empty string is <<>>.    *)
(***************************************************************************)
EXTENDS Integers, Sequences, FiniteSets, TLC

\* ---------------------------------------------------------------- bounds
\* Largest size (logical pages + blocks) of the enumerated small documents.
MaxItems == 4

\* ------------------------------------------------------------- constants
TRIM_WIDTH_PT == 432
TRIM_HEIGHT_PT == 648
PAGE_NUMBER_HEIGHT_PT == 20
BLOCK_SPACING == 8
BLOCK_QUOTE_INDENT == 36
KDP_MIN_PAGE_COUNT == 24
\* 0.250in, in thousandths of an inch
MIN_OUTSIDE_MARGIN_IN == 250
MIN_TOP_MARGIN_IN == 250
MIN_BOTTOM_MARGIN_IN == 250
\* 0.375in, in thousandths of an inch
OUTSIDE_MARGIN_INCHES == 375
TOP_MARGIN_INCHES == 375
BOTTOM_MARGIN_INCHES == 375

\* FONT_SIZES, in points
FONT_SIZES ==
  [TITLE |-> 24, SUBTITLE |-> 16, HEADING |-> 14, SUBHEADING |-> 12,
   BODY |-> 11, FOOTNOTE |-> 9, IMPRINT |-> 10]

INSIDE_MARGIN_BRACKETS ==
  << [maxPages |-> 150, inside |-> 375],
     [maxPages |-> 300, inside |-> 500],
     [maxPages |-> 500, inside |-> 625],
     [maxPages |-> 700, inside |-> 750],
     [maxPages |-> 828, inside |-> 875] >>

BlockTypes ==
  {"heading", "body_text", "block_quote", "footnote", "prompt_list",
   "action_list", "divider", "page_break", "title", "subtitle", "imprint",
   "toc_entry"}

PageNumberStyles == {"roman", "arabic", "suppressed"}

\* A page whose page_number_style is absent carries this value.
Undefined == "undefined"

\* ------------------------------------------------------------ unit helpers
\* points -> dpt
Pt(x) == 10 * x

\* insideIn * 72: thousandths of an inch -> dpt
InchesToPt(thousandths) == (thousandths * 72) \div 100

\* size * LEADING (LEADING = 1.4), in dpt
LineHeight(size) == size * 14

RECURSIVE SumSeq(_)
SumSeq(s) == IF s = <<>> THEN 0 ELSE Head(s) + SumSeq(Tail(s))

\* ---------------------------------------------------------- margins.ts
\* The bracket test made with < instead of <=
RECURSIVE BracketFrom_Strict(_, _)
BracketFrom_Strict(pageCount, i) ==
  IF i > Len(INSIDE_MARGIN_BRACKETS) THEN 0
  ELSE IF pageCount < INSIDE_MARGIN_BRACKETS[i].maxPages THEN i
  ELSE BracketFrom_Strict(pageCount, i + 1)

\* A page count beyond the last bracket clamped to the last bracket
RECURSIVE BracketFrom_Clamp(_, _)
BracketFrom_Clamp(pageCount, i) ==
  IF i >= Len(INSIDE_MARGIN_BRACKETS) THEN i
  ELSE IF pageCount <= INSIDE_MARGIN_BRACKETS[i].maxPages THEN i
  ELSE BracketFrom_Clamp(pageCount, i + 1)

RECURSIVE BracketFrom(_, _)
BracketFrom(pageCount, i) ==
  IF i > Len(INSIDE_MARGIN_BRACKETS) THEN 0
  ELSE IF pageCount <= INSIDE_MARGIN_BRACKETS[i].maxPages THEN i
  ELSE BracketFrom(pageCount, i + 1)

\* Index of the first bracket that holds pageCount; 0 when there is none
\* (the loop falls through to the throw).
BracketIndex(pageCount) == BracketFrom(pageCount, 1)

MarginsThrows(pageCount) == BracketIndex(pageCount) = 0

calculateMargins(pageCount) ==
  [inside |-> INSIDE_MARGIN_BRACKETS[BracketIndex(pageCount)].inside,
   outside |-> OUTSIDE_MARGIN_INCHES,
   top |-> TOP_MARGIN_INCHES,
   bottom |-> BOTTOM_MARGIN_INCHES]

\* describeMarginBracket's own table of edges; labels[i] is modelled by i
edges == <<0, 150, 300, 500, 700, 828>>

\* What each label string says: its range of page counts and its gutter in
\* thousandths of an inch ('151-300 pages: 0.500in gutter')
labels ==
  <<[from |-> 24, to |-> 150, gutter |-> 375],
    [from |-> 151, to |-> 300, gutter |-> 500],
    [from |-> 301, to |-> 500, gutter |-> 625],
    [from |-> 501, to |-> 700, gutter |-> 750],
    [from |-> 701, to |-> 828, gutter |-> 875]>>

\* The loop comparing pageCount with edges[i] in place of edges[i + 1]
RECURSIVE LabelFrom_LowerEdge(_, _)
LabelFrom_LowerEdge(pageCount, i) ==
  IF i >= Len(INSIDE_MARGIN_BRACKETS) THEN -1
  ELSE IF pageCount <= edges[i + 1] THEN i
  ELSE LabelFrom_LowerEdge(pageCount, i + 1)

RECURSIVE LabelFrom(_, _)
LabelFrom(pageCount, i) ==
  IF i >= Len(INSIDE_MARGIN_BRACKETS) THEN -1
  ELSE IF pageCount <= edges[i + 2] THEN i
  ELSE LabelFrom(pageCount, i + 1)

\* The loop of describeMarginBracket from i = 0; -1 when it falls through
LabelIndex(pageCount) == LabelFrom(pageCount, 0)

DescribeThrows(pageCount) == LabelIndex(pageCount) = -1

\* The index (from 1) of the label returned
describeMarginBracket(pageCount) == LabelIndex(pageCount) + 1

\* ----------------------------------------------------------- blocks.ts
\* font.widthOfTextAtSize(line, size), in thousandths of a point: every glyph
\* advances 500/1000 em and a space 250/1000 em, in each of the three faces.
widthOfTextAtSize(line, size) ==
  (500 * SumSeq(line) + 250 * (IF Len(line) = 0 THEN 0 ELSE Len(line) - 1)) * size

\* widthOfTextAtSize(candidate, fontSize) <= maxWidth, maxWidth in dpt
Fits(line, size, maxWidth) == widthOfTextAtSize(line, size) <= maxWidth * 100

\* The inner loop of wrapText over the words of one paragraph.
\* The inner loop dropping the line in work when the next word does not fit
RECURSIVE WrapWords_DropLine(_, _, _, _)
WrapWords_DropLine(words, current, size, maxWidth) ==
  IF words = <<>>
  THEN IF Len(current) > 0 THEN <<current>> ELSE <<>>
  ELSE LET word == Head(words)
           candidate == Append(current, word)
       IN IF Fits(candidate, size, maxWidth)
          THEN WrapWords_DropLine(Tail(words), candidate, size, maxWidth)
          ELSE WrapWords_DropLine(Tail(words), <<word>>, size, maxWidth)

RECURSIVE WrapWords(_, _, _, _)
WrapWords(words, current, size, maxWidth) ==
  IF words = <<>>
  THEN IF Len(current) > 0 THEN <<current>> ELSE <<>>
  ELSE LET word == Head(words)
           candidate == Append(current, word)
       IN IF Fits(candidate, size, maxWidth)
          THEN WrapWords(Tail(words), candidate, size, maxWidth)
          ELSE (IF Len(current) > 0 THEN <<current>> ELSE <<>>)
               \o WrapWords(Tail(words), <<word>>, size, maxWidth)

RECURSIVE WrapParagraphs(_, _, _)
WrapParagraphs(paragraphs, size, maxWidth) ==
  IF paragraphs = <<>> THEN <<>>
  ELSE LET words == SelectSeq(Head(paragraphs), LAMBDA w : w > 0)
       IN (IF Len(words) = 0 THEN << <<>> >>
           ELSE WrapWords(words, <<>>, size, maxWidth))
          \o WrapParagraphs(Tail(paragraphs), size, maxWidth)

\* wrapText without the early return for text.length === 0
wrapText_NoEarlyReturn(text, size, maxWidth) ==
  IF text = <<>> THEN << <<>> >> ELSE WrapParagraphs(text, size, maxWidth)

\* text is the sequence of the paragraphs of the string, each the sequence of
\* the glyph counts of its tokens (0 for the empty token a doubled, leading
\* or trailing space leaves); <<>> is the string of length 0, and a text of
\* one paragraph without words is a string of spaces only.
wrapText(text, size, maxWidth) ==
  IF text = <<>> THEN <<>> ELSE WrapParagraphs(text, size, maxWidth)

\* drawLines stepping down between lines only, not after the last one
drawLines_Between(lines, startY, lineHeight) ==
  startY - (IF Len(lines) = 0 THEN 0 ELSE Len(lines) - 1) * lineHeight

\* drawLines: the y the cursor is left at
drawLines(lines, startY, lineHeight) == startY - Len(lines) * lineHeight

\* A renderer's result: the new cursor, the context's pendingFootnotes after
\* the call, and the wrapped lines it drew on ctx.page.
RenderResult(cursor, pendingFootnotes, lines) ==
  [cursor |-> cursor, pendingFootnotes |-> pendingFootnotes, lines |-> lines]

\* The common body of the text-bearing renderers: wrap, draw, advance.
RenderTextLines(lines, ctx, size, startX, spacing) ==
  RenderResult([x |-> startX,
                y |-> drawLines(lines, ctx.cursor.y, LineHeight(size)) - spacing],
               ctx.pendingFootnotes, lines)

renderHeading(block, ctx) ==
  RenderTextLines(wrapText(block.content, FONT_SIZES.HEADING, ctx.contentWidth),
                  ctx, FONT_SIZES.HEADING, ctx.contentX, Pt(BLOCK_SPACING))

renderBodyText(block, ctx) ==
  RenderTextLines(wrapText(block.content, FONT_SIZES.BODY, ctx.contentWidth),
                  ctx, FONT_SIZES.BODY, ctx.contentX, Pt(BLOCK_SPACING))

renderBlockQuote(block, ctx) ==
  LET indentedX == ctx.contentX + Pt(BLOCK_QUOTE_INDENT)
      indentedWidth == ctx.contentWidth - Pt(BLOCK_QUOTE_INDENT) * 2
  IN RenderTextLines(wrapText(block.content, FONT_SIZES.BODY, indentedWidth),
                     ctx, FONT_SIZES.BODY, indentedX, Pt(BLOCK_SPACING))

\* renderFootnote queueing the block and also setting it inline as body text
renderFootnote_Inline(block, ctx) ==
  LET lines == wrapText(block.content, FONT_SIZES.FOOTNOTE, ctx.contentWidth)
  IN RenderResult([x |-> ctx.contentX,
                   y |-> drawLines(lines, ctx.cursor.y, LineHeight(FONT_SIZES.FOOTNOTE))],
                  Append(ctx.pendingFootnotes, block), lines)

renderFootnote(block, ctx) ==
  RenderResult(ctx.cursor, Append(ctx.pendingFootnotes, block), <<>>)

\* content.split('\n').filter(non-blank).map(bullet + ' ' + trimmed): the
\* bullet is a one-glyph word put before the words of the item.
ListItems(content) ==
  LET nonBlank == SelectSeq(content, LAMBDA para : \E i \in 1..Len(para) : para[i] > 0)
  IN [i \in 1..Len(nonBlank) |->
        <<1>> \o SelectSeq(nonBlank[i], LAMBDA w : w > 0)]

RECURSIVE WrapItems(_, _, _)
WrapItems(items, size, maxWidth) ==
  IF items = <<>> THEN <<>>
  ELSE wrapText(<<Head(items)>>, size, maxWidth)
       \o WrapItems(Tail(items), size, maxWidth)

renderPromptList(block, ctx) ==
  RenderTextLines(WrapItems(ListItems(block.content), FONT_SIZES.BODY, ctx.contentWidth),
                  ctx, FONT_SIZES.BODY, ctx.contentX, Pt(BLOCK_SPACING))

renderActionList(block, ctx) ==
  RenderTextLines(WrapItems(ListItems(block.content), FONT_SIZES.BODY, ctx.contentWidth),
                  ctx, FONT_SIZES.BODY, ctx.contentX, Pt(BLOCK_SPACING))

renderDivider(block, ctx) ==
  LET ruleY == ctx.cursor.y - Pt(8)
  IN RenderResult([x |-> ctx.contentX, y |-> ruleY - Pt(8) - Pt(BLOCK_SPACING)],
                  ctx.pendingFootnotes, <<>>)

renderPageBreak(block, ctx) ==
  RenderResult(ctx.cursor, ctx.pendingFootnotes, <<>>)

renderTitle(block, ctx) ==
  RenderTextLines(wrapText(block.content, FONT_SIZES.TITLE, ctx.contentWidth),
                  ctx, FONT_SIZES.TITLE, ctx.contentX, Pt(BLOCK_SPACING) * 2)

renderSubtitle(block, ctx) ==
  RenderTextLines(wrapText(block.content, FONT_SIZES.SUBTITLE, ctx.contentWidth),
                  ctx, FONT_SIZES.SUBTITLE, ctx.contentX, Pt(BLOCK_SPACING))

renderImprint(block, ctx) ==
  RenderTextLines(wrapText(block.content, FONT_SIZES.IMPRINT, ctx.contentWidth),
                  ctx, FONT_SIZES.IMPRINT, ctx.contentX, Pt(BLOCK_SPACING))

renderTocEntry(block, ctx) ==
  RenderTextLines(wrapText(block.content, FONT_SIZES.BODY, ctx.contentWidth),
                  ctx, FONT_SIZES.BODY, ctx.contentX, Pt(4))

\* BLOCK_RENDERERS[block.block_type](block, ctx)
renderBlock(block, ctx) ==
  CASE block.block_type = "heading" -> renderHeading(block, ctx)
    [] block.block_type = "body_text" -> renderBodyText(block, ctx)
    [] block.block_type = "block_quote" -> renderBlockQuote(block, ctx)
    [] block.block_type = "footnote" -> renderFootnote(block, ctx)
    [] block.block_type = "prompt_list" -> renderPromptList(block, ctx)
    [] block.block_type = "action_list" -> renderActionList(block, ctx)
    [] block.block_type = "divider" -> renderDivider(block, ctx)
    [] block.block_type = "page_break" -> renderPageBreak(block, ctx)
    [] block.block_type = "title" -> renderTitle(block, ctx)
    [] block.block_type = "subtitle" -> renderSubtitle(block, ctx)
    [] block.block_type = "imprint" -> renderImprint(block, ctx)
    [] block.block_type = "toc_entry" -> renderTocEntry(block, ctx)

\* ------------------------------------------------------- compliance.ts
\* checkCompliance with the 24-page minimum pushed as a violation
checkCompliance_WarningBlocks(input) ==
  LET trimSizeCorrect ==
        \A i \in 1..Len(input.pageDimensions) :
          /\ input.pageDimensions[i][1] - TRIM_WIDTH_PT < 1
          /\ TRIM_WIDTH_PT - input.pageDimensions[i][1] < 1
          /\ input.pageDimensions[i][2] - TRIM_HEIGHT_PT < 1
          /\ TRIM_HEIGHT_PT - input.pageDimensions[i][2] < 1
      required == calculateMargins(input.pageCount)
      insideMarginCorrect == input.insideMarginIn >= required.inside - 1
      outsideMarginCorrect == input.outsideMarginIn >= MIN_OUTSIDE_MARGIN_IN - 1
      topMarginCorrect == input.topMarginIn >= MIN_TOP_MARGIN_IN - 1
      bottomMarginCorrect == input.bottomMarginIn >= MIN_BOTTOM_MARGIN_IN - 1
      offerPagePresent ==
        IF input.outputMode = "personal" THEN TRUE ELSE input.offerPagePresent
      violations ==
        (IF trimSizeCorrect THEN <<>> ELSE <<"trim">>)
        \o (IF insideMarginCorrect THEN <<>> ELSE <<"inside">>)
        \o (IF outsideMarginCorrect THEN <<>> ELSE <<"outside">>)
        \o (IF topMarginCorrect THEN <<>> ELSE <<"top">>)
        \o (IF bottomMarginCorrect THEN <<>> ELSE <<"bottom">>)
        \o (IF input.fontsEmbedded THEN <<>> ELSE <<"fonts">>)
        \o (IF input.outputMode = "publish-ready" /\ ~input.offerPagePresent
            THEN <<"offer">> ELSE <<>>)
        \o (IF input.pageCount < KDP_MIN_PAGE_COUNT THEN <<"pages">> ELSE <<>>)
  IN [passes |-> Len(violations) = 0,
      trim_size_correct |-> trimSizeCorrect,
      inside_margin_correct |-> insideMarginCorrect,
      outside_margin_correct |-> outsideMarginCorrect,
      top_margin_correct |-> topMarginCorrect,
      bottom_margin_correct |-> bottomMarginCorrect,
      fonts_embedded |-> input.fontsEmbedded,
      page_count |-> input.pageCount,
      page_count_warning |-> input.pageCount < KDP_MIN_PAGE_COUNT,
      offer_page_present |-> offerPagePresent,
      violations |-> violations]

\* checkCompliance with the offer page enforced in personal mode too
checkCompliance_OfferInBothModes(input) ==
  LET trimSizeCorrect ==
        \A i \in 1..Len(input.pageDimensions) :
          /\ input.pageDimensions[i][1] - TRIM_WIDTH_PT < 1
          /\ TRIM_WIDTH_PT - input.pageDimensions[i][1] < 1
          /\ input.pageDimensions[i][2] - TRIM_HEIGHT_PT < 1
          /\ TRIM_HEIGHT_PT - input.pageDimensions[i][2] < 1
      required == calculateMargins(input.pageCount)
      insideMarginCorrect == input.insideMarginIn >= required.inside - 1
      outsideMarginCorrect == input.outsideMarginIn >= MIN_OUTSIDE_MARGIN_IN - 1
      topMarginCorrect == input.topMarginIn >= MIN_TOP_MARGIN_IN - 1
      bottomMarginCorrect == input.bottomMarginIn >= MIN_BOTTOM_MARGIN_IN - 1
      offerPagePresent == input.offerPagePresent
      violations ==
        (IF trimSizeCorrect THEN <<>> ELSE <<"trim">>)
        \o (IF insideMarginCorrect THEN <<>> ELSE <<"inside">>)
        \o (IF outsideMarginCorrect THEN <<>> ELSE <<"outside">>)
        \o (IF topMarginCorrect THEN <<>> ELSE <<"top">>)
        \o (IF bottomMarginCorrect THEN <<>> ELSE <<"bottom">>)
        \o (IF input.fontsEmbedded THEN <<>> ELSE <<"fonts">>)
        \o (IF ~input.offerPagePresent
            THEN <<"offer">> ELSE <<>>)
  IN [passes |-> Len(violations) = 0,
      trim_size_correct |-> trimSizeCorrect,
      inside_margin_correct |-> insideMarginCorrect,
      outside_margin_correct |-> outsideMarginCorrect,
      top_margin_correct |-> topMarginCorrect,
      bottom_margin_correct |-> bottomMarginCorrect,
      fonts_embedded |-> input.fontsEmbedded,
      page_count |-> input.pageCount,
      page_count_warning |-> input.pageCount < KDP_MIN_PAGE_COUNT,
      offer_page_present |-> offerPagePresent,
      violations |-> violations]

\* checkCompliance that stops at the first violation
checkCompliance_ShortCircuit(input) ==
  LET trimSizeCorrect ==
        \A i \in 1..Len(input.pageDimensions) :
          /\ input.pageDimensions[i][1] - TRIM_WIDTH_PT < 1
          /\ TRIM_WIDTH_PT - input.pageDimensions[i][1] < 1
          /\ input.pageDimensions[i][2] - TRIM_HEIGHT_PT < 1
          /\ TRIM_HEIGHT_PT - input.pageDimensions[i][2] < 1
      required == calculateMargins(input.pageCount)
      insideMarginCorrect == input.insideMarginIn >= required.inside - 1
      outsideMarginCorrect == input.outsideMarginIn >= MIN_OUTSIDE_MARGIN_IN - 1
      topMarginCorrect == input.topMarginIn >= MIN_TOP_MARGIN_IN - 1
      bottomMarginCorrect == input.bottomMarginIn >= MIN_BOTTOM_MARGIN_IN - 1
      offerPagePresent ==
        IF input.outputMode = "personal" THEN TRUE ELSE input.offerPagePresent
      allViolations ==
        (IF trimSizeCorrect THEN <<>> ELSE <<"trim">>)
        \o (IF insideMarginCorrect THEN <<>> ELSE <<"inside">>)
        \o (IF outsideMarginCorrect THEN <<>> ELSE <<"outside">>)
        \o (IF topMarginCorrect THEN <<>> ELSE <<"top">>)
        \o (IF bottomMarginCorrect THEN <<>> ELSE <<"bottom">>)
        \o (IF input.fontsEmbedded THEN <<>> ELSE <<"fonts">>)
        \o (IF input.outputMode = "publish-ready" /\ ~input.offerPagePresent
            THEN <<"offer">> ELSE <<>>)
      violations ==
        IF allViolations = <<>> THEN <<>> ELSE <<Head(allViolations)>>
  IN [passes |-> Len(violations) = 0,
      trim_size_correct |-> trimSizeCorrect,
      inside_margin_correct |-> insideMarginCorrect,
      outside_margin_correct |-> outsideMarginCorrect,
      top_margin_correct |-> topMarginCorrect,
      bottom_margin_correct |-> bottomMarginCorrect,
      fonts_embedded |-> input.fontsEmbedded,
      page_count |-> input.pageCount,
      page_count_warning |-> input.pageCount < KDP_MIN_PAGE_COUNT,
      offer_page_present |-> offerPagePresent,
      violations |-> violations]

\* checkCompliance; the caller has established ~MarginsThrows(input.pageCount),
\* for calculateMargins throws otherwise.
\* The top margin passing only when the outside margin passes too
checkCompliance_SmallestMargin(input) ==
  LET trimSizeCorrect ==
        \A i \in 1..Len(input.pageDimensions) :
          /\ input.pageDimensions[i][1] - TRIM_WIDTH_PT < 1
          /\ TRIM_WIDTH_PT - input.pageDimensions[i][1] < 1
          /\ input.pageDimensions[i][2] - TRIM_HEIGHT_PT < 1
          /\ TRIM_HEIGHT_PT - input.pageDimensions[i][2] < 1
      required == calculateMargins(input.pageCount)
      insideMarginCorrect == input.insideMarginIn >= required.inside - 1
      outsideMarginCorrect == input.outsideMarginIn >= MIN_OUTSIDE_MARGIN_IN - 1
      topMarginCorrect == outsideMarginCorrect /\ input.topMarginIn >= MIN_TOP_MARGIN_IN - 1
      bottomMarginCorrect == input.bottomMarginIn >= MIN_BOTTOM_MARGIN_IN - 1
      offerPagePresent ==
        IF input.outputMode = "personal" THEN TRUE ELSE input.offerPagePresent
      violations ==
        (IF trimSizeCorrect THEN <<>> ELSE <<"trim">>)
        \o (IF insideMarginCorrect THEN <<>> ELSE <<"inside">>)
        \o (IF outsideMarginCorrect THEN <<>> ELSE <<"outside">>)
        \o (IF topMarginCorrect THEN <<>> ELSE <<"top">>)
        \o (IF bottomMarginCorrect THEN <<>> ELSE <<"bottom">>)
        \o (IF input.fontsEmbedded THEN <<>> ELSE <<"fonts">>)
        \o (IF input.outputMode = "publish-ready" /\ ~input.offerPagePresent
            THEN <<"offer">> ELSE <<>>)
  IN [passes |-> Len(violations) = 0,
      trim_size_correct |-> trimSizeCorrect,
      inside_margin_correct |-> insideMarginCorrect,
      outside_margin_correct |-> outsideMarginCorrect,
      top_margin_correct |-> topMarginCorrect,
      bottom_margin_correct |-> bottomMarginCorrect,
      fonts_embedded |-> input.fontsEmbedded,
      page_count |-> input.pageCount,
      page_count_warning |-> input.pageCount < KDP_MIN_PAGE_COUNT,
      offer_page_present |-> offerPagePresent,
      violations |-> violations]

checkCompliance(input) ==
  LET trimSizeCorrect ==
        \A i \in 1..Len(input.pageDimensions) :
          /\ input.pageDimensions[i][1] - TRIM_WIDTH_PT < 1
          /\ TRIM_WIDTH_PT - input.pageDimensions[i][1] < 1
          /\ input.pageDimensions[i][2] - TRIM_HEIGHT_PT < 1
          /\ TRIM_HEIGHT_PT - input.pageDimensions[i][2] < 1
      required == calculateMargins(input.pageCount)
      insideMarginCorrect == input.insideMarginIn >= required.inside - 1
      outsideMarginCorrect == input.outsideMarginIn >= MIN_OUTSIDE_MARGIN_IN - 1
      topMarginCorrect == input.topMarginIn >= MIN_TOP_MARGIN_IN - 1
      bottomMarginCorrect == input.bottomMarginIn >= MIN_BOTTOM_MARGIN_IN - 1
      offerPagePresent ==
        IF input.outputMode = "personal" THEN TRUE ELSE input.offerPagePresent
      violations ==
        (IF trimSizeCorrect THEN <<>> ELSE <<"trim">>)
        \o (IF insideMarginCorrect THEN <<>> ELSE <<"inside">>)
        \o (IF outsideMarginCorrect THEN <<>> ELSE <<"outside">>)
        \o (IF topMarginCorrect THEN <<>> ELSE <<"top">>)
        \o (IF bottomMarginCorrect THEN <<>> ELSE <<"bottom">>)
        \o (IF input.fontsEmbedded THEN <<>> ELSE <<"fonts">>)
        \o (IF input.outputMode = "publish-ready" /\ ~input.offerPagePresent
            THEN <<"offer">> ELSE <<>>)
  IN [passes |-> Len(violations) = 0,
      trim_size_correct |-> trimSizeCorrect,
      inside_margin_correct |-> insideMarginCorrect,
      outside_margin_correct |-> outsideMarginCorrect,
      top_margin_correct |-> topMarginCorrect,
      bottom_margin_correct |-> bottomMarginCorrect,
      fonts_embedded |-> input.fontsEmbedded,
      page_count |-> input.pageCount,
      page_count_warning |-> input.pageCount < KDP_MIN_PAGE_COUNT,
      offer_page_present |-> offerPagePresent,
      violations |-> violations]

\* ------------------------------------------------------------ documents
Blk(type, content) ==
  [block_type |-> type, content |-> content, offer |-> FALSE, id |-> <<0, 0>>]

\* A block whose content includes the offer-page marker text.
OfferBlk(type, content) == [Blk(type, content) EXCEPT !.offer = TRUE]

Page(style, blocks) ==
  [blocks |-> blocks, starts_new_page |-> TRUE, page_number_style |-> style]

\* The identity of a block object: its place in allDocPages.
Number(docPages) ==
  [d \in 1..Len(docPages) |->
     [docPages[d] EXCEPT !.blocks =
        [b \in 1..Len(docPages[d].blocks) |->
           [docPages[d].blocks[b] EXCEPT !.id = <<d, b>>]]]]

\* What a document lacks: nothing, the document itself, one of its two page
\* lists, or the blocks of the page at the given place of allDocPages
Missing(field, page) == [field |-> field, page |-> page]

Doc(front, content) ==
  LET all == Number(front \o content)
  IN [front_matter |-> SubSeq(all, 1, Len(front)),
      content_pages |-> SubSeq(all, Len(front) + 1, Len(all)),
      missing |-> Missing("none", 0)]

OneWord == << <<5>> >>

\* n one-word paragraphs: n lines at every width
Paragraphs(n) == [i \in 1..n |-> <<5>>]

\* One paragraph that is one line of body text at the 378pt content width of
\* the first bracket and two lines at the 369pt width of the second.
FlexParagraph == <<7, 7, 7, 7, 7, 7, 7, 7, 8>>

\* The number of body lines a block may have, drawn from the top of the
\* content area under the default margins, and leave the cursor at or above
\* the floor.
FullLines ==
  ((Pt(TRIM_HEIGHT_PT) - InchesToPt(TOP_MARGIN_INCHES))
   - (InchesToPt(BOTTOM_MARGIN_INCHES) + Pt(PAGE_NUMBER_HEIGHT_PT) + Pt(10))
   - Pt(BLOCK_SPACING)) \div LineHeight(FONT_SIZES.BODY)

ShortBody == Blk("body_text", OneWord)
MidBody == Blk("body_text", Paragraphs(FullLines))
TallBody == Blk("body_text", Paragraphs(FullLines + 1))
FlexBody == Blk("body_text", Append(Paragraphs(FullLines - 1), FlexParagraph))
Footnote == Blk("footnote", OneWord)
PageBreak == Blk("page_break", <<>>)

SmallBlocks == {ShortBody, MidBody, TallBody, Footnote, PageBreak}

\* The lists of logical pages of size n (pages + blocks), over SmallBlocks.
RECURSIVE SmallPageLists(_)
SmallPageLists(n) ==
  IF n = 0 THEN {<<>>}
  ELSE LET prev == SmallPageLists(n - 1)
       IN {Append(d, Page(s, <<>>)) : d \in prev, s \in PageNumberStyles}
          \cup {[d EXCEPT ![Len(d)].blocks = Append(@, b)] :
                  d \in prev \ {<<>>}, b \in SmallBlocks}

SmallDocs ==
  {Doc(<<>>, d) : d \in UNION {SmallPageLists(n) : n \in 0..MaxItems}}

\* n Arabic logical pages of one short block each; with flex, the first page
\* holds FlexBody and a short block instead.
BigDoc(n, flex) ==
  Doc(<<>>, [i \in 1..n |->
               Page("arabic", IF flex /\ i = 1 THEN <<FlexBody, ShortBody>>
                              ELSE <<ShortBody>>)])

LastBracket == INSIDE_MARGIN_BRACKETS[Len(INSIDE_MARGIN_BRACKETS)].maxPages

BigDocs ==
  {BigDoc(INSIDE_MARGIN_BRACKETS[1].maxPages, FALSE),
   BigDoc(INSIDE_MARGIN_BRACKETS[1].maxPages + 1, FALSE),
   BigDoc(INSIDE_MARGIN_BRACKETS[1].maxPages, TRUE),
   BigDoc(INSIDE_MARGIN_BRACKETS[2].maxPages, TRUE),
   BigDoc(LastBracket, TRUE),
   BigDoc(LastBracket + 1, FALSE)}

\* Three front-matter pages (suppressed, Roman, Roman) and five Arabic
\* content pages of one short block each.
FrontAndContentDoc ==
  Doc(<<Page("suppressed", <<Blk("title", OneWord)>>),
        Page("roman", <<Blk("imprint", OneWord)>>),
        Page("roman", <<Blk("toc_entry", OneWord)>>)>>,
      [i \in 1..5 |-> Page("arabic", <<ShortBody>>)])

\* One page with a block of every type, a page without page_number_style,
\* and a last page with the offer text.
AllTypesDoc ==
  Doc(<<Page("roman", <<Blk("title", OneWord), Blk("subtitle", OneWord),
                        Blk("imprint", OneWord), Blk("toc_entry", OneWord)>>)>>,
      <<Page(Undefined, <<Blk("heading", OneWord), Blk("body_text", OneWord),
                          Blk("block_quote", <<FlexParagraph>>),
                          Blk("footnote", OneWord),
                          Blk("prompt_list", <<<<5>>, <<>>, <<5, 5>>>>),
                          Blk("action_list", <<<<5>>, <<5>>>>),
                          Blk("divider", <<>>)>>),
        Page("arabic", <<Blk("heading", OneWord),
                         OfferBlk("body_text", OneWord)>>)>>)

\* Documents with the offer text: on the last content page alone, on the last
\* content page before a page break, on a content page that is not the last,
\* and in the front matter of a document without content pages.
OfferDocs ==
  {Doc(<<>>, <<Page("arabic", <<ShortBody>>),
               Page("arabic", <<OfferBlk("body_text", OneWord)>>)>>),
   Doc(<<>>, <<Page("arabic", <<OfferBlk("body_text", OneWord), PageBreak,
                                ShortBody>>)>>),
   Doc(<<>>, <<Page("arabic", <<OfferBlk("body_text", OneWord)>>),
               Page("arabic", <<ShortBody>>)>>),
   Doc(<<Page("roman", <<OfferBlk("body_text", OneWord)>>)>>, <<>>)}

\* Inputs that parse as JSON and break the DocumentRepresentation contract:
\* no document, no front_matter, no content_pages, a first page without
\* blocks, a second page without blocks
MalformedDocs ==
  {[Doc(<<>>, <<>>) EXCEPT !.missing = Missing("document", 0)],
   [Doc(<<>>, <<Page("arabic", <<ShortBody>>)>>)
      EXCEPT !.missing = Missing("front_matter", 0)],
   [Doc(<<Page("roman", <<ShortBody>>)>>, <<>>)
      EXCEPT !.missing = Missing("content_pages", 0)],
   [Doc(<<>>, <<Page("arabic", <<>>)>>) EXCEPT !.missing = Missing("blocks", 1)],
   [Doc(<<Page("roman", <<ShortBody>>)>>, <<Page("arabic", <<>>)>>)
      EXCEPT !.missing = Missing("blocks", 2)]}

\* Documents whose later logical pages say starts_new_page: true or false,
\* the second page without page_number_style.
ContinuedDocs ==
  {Doc(<<Page("roman", <<ShortBody>>)>>,
       <<[Page(Undefined, <<ShortBody, Footnote>>)
            EXCEPT !.starts_new_page = flags[1]],
         [Page("arabic", <<ShortBody>>)
            EXCEPT !.starts_new_page = flags[2]]>>) :
     flags \in BOOLEAN \X BOOLEAN}

Documents ==
  SmallDocs \cup BigDocs \cup OfferDocs \cup MalformedDocs
  \cup ContinuedDocs \cup {FrontAndContentDoc, AllTypesDoc}

OutputModes == {"personal", "publish-ready"}

\* ------------------------------------------------------------ engine.ts
\* toRoman's tables; a string is the sequence of its characters
vals == <<1000, 900, 500, 400, 100, 90, 50, 40, 10, 9, 5, 4, 1>>
syms ==
  <<<<"m">>, <<"c", "m">>, <<"d">>, <<"c", "d">>, <<"c">>, <<"x", "c">>,
    <<"l">>, <<"x", "l">>, <<"x">>, <<"i", "x">>, <<"v">>, <<"i", "v">>,
    <<"i">>>>

\* The loops of toRoman comparing with > in place of >=
RECURSIVE RomanFrom_Strict(_, _)
RomanFrom_Strict(rem, i) ==
  IF i > Len(vals) THEN <<>>
  ELSE IF rem > vals[i] THEN syms[i] \o RomanFrom_Strict(rem - vals[i], i)
  ELSE RomanFrom_Strict(rem, i + 1)

\* The loops of toRoman from index i with rem left: the while loop appends
\* syms[i] as long as rem >= vals[i], then the for loop moves on.
RECURSIVE RomanFrom(_, _)
RomanFrom(rem, i) ==
  IF i > Len(vals) THEN <<>>
  ELSE IF rem >= vals[i] THEN syms[i] \o RomanFrom(rem - vals[i], i)
  ELSE RomanFrom(rem, i + 1)

toRoman(n) == IF n <= 0 THEN <<>> ELSE RomanFrom(n, 1)

VARIABLES
  document,          \* generatePDF's document argument
  outputMode,        \* generatePDF's outputMode argument
  pc,                \* where generatePDF stands
  pass,              \* 0 before renderLayout is entered, then 1 or 2
  margins,           \* renderLayout's insideIn, outsideIn, topIn, bottomIn
  di,                \* index of the logical page in work (0 before the first)
  bi,                \* index of the next block of that logical page
  pages,             \* doc: the physical pages added so far, as drawn
  pageDimensions,
  pdfPageCount,
  cursor,
  pendingFootnotes,
  currentStyle,
  romanCounter,
  arabicCounter,
  pass1,             \* the LayoutResult of pass one
  layout,            \* the LayoutResult generatePDF goes on with
  result,            \* what generatePDF returned or threw
  call,              \* a function of margins.ts or compliance.ts called alone
  process            \* runSubprocess: stdin, stdout, stderr and exit status

vars ==
  <<call, process, document, outputMode, pc, pass, margins, di, bi, pages, pageDimensions,
    pdfPageCount, cursor, pendingFootnotes, currentStyle, romanCounter,
    arabicCounter, pass1, layout, result>>

layoutVars ==
  <<di, bi, pages, pageDimensions, pdfPageCount, cursor, pendingFootnotes,
    currentStyle, romanCounter, arabicCounter>>

None == [none |-> TRUE]

allDocPages == document.front_matter \o document.content_pages

\* renderLayout's derived geometry, in dpt
contentX == InchesToPt(margins.inside)
contentWidth ==
  Pt(TRIM_WIDTH_PT) - InchesToPt(margins.inside) - InchesToPt(margins.outside)
contentTopY == Pt(TRIM_HEIGHT_PT) - InchesToPt(margins.top)
contentFloorY == InchesToPt(margins.bottom) + Pt(PAGE_NUMBER_HEIGHT_PT) + Pt(10)
TopCursor == [x |-> contentX, y |-> contentTopY]

\* The page's own style ignored
PageStyleOf_AlwaysArabic(docPage) == "arabic"

\* docPage.page_number_style ?? 'arabic'
PageStyleOf(docPage) ==
  IF docPage.page_number_style = Undefined THEN "arabic"
  ELSE docPage.page_number_style

\* A physical page as doc.addPage leaves it.  openedBy and logical record
\* why and for which logical page it was opened; cursorAtOpen the cursor the
\* engine set on opening it, closing the calls finalizeCurrentPage has made
\* on it, in their order, footnoteMarks what renderPageFootnotes drew on it.
NewPage(style, openedBy, logical, cursorAtOpen) ==
  [style |-> style, openedBy |-> openedBy, logical |-> logical,
   cursorAtOpen |-> cursorAtOpen, drawn |-> <<>>, queued |-> <<>>,
   footnotes |-> <<>>, finalized |-> 0, closing |-> <<>>, numDisplay |-> 0,
   numbered |-> FALSE, footnoteMarks |-> <<>>]

\* renderLayout's mutable state, as one value
Engine ==
  [pages |-> pages, pageDimensions |-> pageDimensions,
   pdfPageCount |-> pdfPageCount, cursor |-> cursor,
   pendingFootnotes |-> pendingFootnotes, currentStyle |-> currentStyle,
   romanCounter |-> romanCounter, arabicCounter |-> arabicCounter]

Assign(e) ==
  /\ pages' = e.pages
  /\ pageDimensions' = e.pageDimensions
  /\ pdfPageCount' = e.pdfPageCount
  /\ cursor' = e.cursor
  /\ pendingFootnotes' = e.pendingFootnotes
  /\ currentStyle' = e.currentStyle
  /\ romanCounter' = e.romanCounter
  /\ arabicCounter' = e.arabicCounter

BlockIds(blocks) == [i \in 1..Len(blocks) |-> blocks[i].id]

\* All the lines of the footnotes, in the order they are drawn
RECURSIVE FootnoteLines(_, _, _)
FootnoteLines(footnotes, size, maxWidth) ==
  IF footnotes = <<>> THEN <<>>
  ELSE wrapText(Head(footnotes).content, size, maxWidth)
       \o FootnoteLines(Tail(footnotes), size, maxWidth)

\* renderPageFootnotes(footnotes, page, fonts, contentX, contentWidth,
\* bottomY): what it draws, top down: the separator rule at ruleY, then
\* every wrapped line of every footnote at baseline y - size, y stepping down
\* by lineHeight from ruleY - lineHeight.  Nothing for no footnotes.
renderPageFootnotes(footnotes, bottomY) ==
  IF Len(footnotes) = 0 THEN <<>>
  ELSE LET size == FONT_SIZES.FOOTNOTE
           lineHeight == LineHeight(size)
           ruleY == bottomY + Len(footnotes) * lineHeight * 2 + Pt(8)
           lines == FootnoteLines(footnotes, size, contentWidth)
       IN <<[mark |-> "rule", y |-> ruleY]>>
          \o [k \in 1..Len(lines) |->
                [mark |-> "text",
                 y |-> (ruleY - lineHeight) - (k - 1) * lineHeight - Pt(size)]]

\* bottomPt + PAGE_NUMBER_HEIGHT_PT + 4
footnotesY == InchesToPt(margins.bottom) + Pt(PAGE_NUMBER_HEIGHT_PT) + Pt(4)

\* bottomPt / 2, the baseline of the page number
pageNumberY == InchesToPt(margins.bottom) \div 2

\* finalizeCurrentPage without pendingFootnotes = []
finalizeCurrentPage_KeepPending(e) ==
  LET n == Len(e.pages)
      numDisplay ==
        IF e.currentStyle = "roman" THEN e.romanCounter ELSE e.arabicCounter
  IN [e EXCEPT
        !.pages[n].footnotes = @ \o BlockIds(e.pendingFootnotes),
        !.pages[n].finalized = @ + 1,
        !.pages[n].closing = @ \o <<"renderPageFootnotes", "drawPageNumber">>,
        !.pages[n].footnoteMarks =
           @ \o renderPageFootnotes(e.pendingFootnotes, footnotesY),
        !.pages[n].style = e.currentStyle,
        !.pages[n].numDisplay = numDisplay,
        !.pages[n].numbered = (e.currentStyle # "suppressed")]

\* finalizeCurrentPage that always displays the Arabic counter
finalizeCurrentPage_ArabicOnly(e) ==
  LET n == Len(e.pages)
  IN [e EXCEPT
        !.pages[n].footnotes = @ \o BlockIds(e.pendingFootnotes),
        !.pages[n].finalized = @ + 1,
        !.pages[n].closing = @ \o <<"renderPageFootnotes", "drawPageNumber">>,
        !.pages[n].footnoteMarks =
           @ \o renderPageFootnotes(e.pendingFootnotes, footnotesY),
        !.pages[n].style = e.currentStyle,
        !.pages[n].numDisplay = e.arabicCounter,
        !.pages[n].numbered = (e.currentStyle # "suppressed"),
        !.pendingFootnotes = <<>>]

\* finalizeCurrentPage: renderPageFootnotes(pendingFootnotes, currentPage),
\* pendingFootnotes = [], drawPageNumber(currentPage, currentStyle, numDisplay)
finalizeCurrentPage(e) ==
  LET n == Len(e.pages)
      numDisplay ==
        IF e.currentStyle = "roman" THEN e.romanCounter ELSE e.arabicCounter
  IN [e EXCEPT
        !.pages[n].footnotes = @ \o BlockIds(e.pendingFootnotes),
        !.pages[n].finalized = @ + 1,
        !.pages[n].closing = @ \o <<"renderPageFootnotes", "drawPageNumber">>,
        !.pages[n].footnoteMarks =
           @ \o renderPageFootnotes(e.pendingFootnotes, footnotesY),
        !.pages[n].style = e.currentStyle,
        !.pages[n].numDisplay = numDisplay,
        !.pages[n].numbered = (e.currentStyle # "suppressed"),
        !.pendingFootnotes = <<>>]

\* IncrementCounter counting every page that is not Roman as Arabic
IncrementCounter_ElseArabic(e, style) ==
  IF style = "roman" THEN [e EXCEPT !.romanCounter = @ + 1]
  ELSE [e EXCEPT !.arabicCounter = @ + 1]

\* IncrementCounter with the Arabic branch lost
IncrementCounter_RomanOnly(e, style) ==
  IF style = "roman" THEN [e EXCEPT !.romanCounter = @ + 1] ELSE e

\* The counter increment of advancePage and of the overflow branch
IncrementCounter(e, style) ==
  IF style = "roman" THEN [e EXCEPT !.romanCounter = @ + 1]
  ELSE IF style = "arabic" THEN [e EXCEPT !.arabicCounter = @ + 1]
  ELSE e

\* advancePage that ignores incrementCounter and always increments
advancePage_AlwaysIncrement(e, style, incrementCounter, openedBy, logical) ==
  LET f == finalizeCurrentPage(e)
  IN IncrementCounter(
       [f EXCEPT
          !.pages = Append(@, NewPage(style, openedBy, logical, TopCursor)),
          !.pageDimensions = Append(@, <<TRIM_WIDTH_PT, TRIM_HEIGHT_PT>>),
          !.pdfPageCount = @ + 1,
          !.cursor = TopCursor,
          !.currentStyle = style],
       style)

\* advancePage without pdfPageCount++
advancePage_NoCount(e, style, incrementCounter, openedBy, logical) ==
  LET f == finalizeCurrentPage(e)
      g == [f EXCEPT
              !.pages = Append(@, NewPage(style, openedBy, logical, TopCursor)),
              !.pageDimensions = Append(@, <<TRIM_WIDTH_PT, TRIM_HEIGHT_PT>>),
              !.cursor = TopCursor,
              !.currentStyle = style]
  IN IF incrementCounter THEN IncrementCounter(g, style) ELSE g

\* advancePage leaving the pending footnotes to the next page
advancePage_CarryFootnotes(e, style, incrementCounter, openedBy, logical) ==
  LET f == [finalizeCurrentPage(e) EXCEPT !.pendingFootnotes = e.pendingFootnotes]
      g == [f EXCEPT
              !.pages = Append(@, NewPage(style, openedBy, logical, TopCursor)),
              !.pageDimensions = Append(@, <<TRIM_WIDTH_PT, TRIM_HEIGHT_PT>>),
              !.pdfPageCount = @ + 1,
              !.cursor = TopCursor,
              !.currentStyle = style]
  IN IF incrementCounter THEN IncrementCounter(g, style) ELSE g

\* advancePage(style, incrementCounter); openedBy and logical are recorded
\* on the new page.
advancePage(e, style, incrementCounter, openedBy, logical) ==
  LET f == finalizeCurrentPage(e)
      g == [f EXCEPT
              !.pages = Append(@, NewPage(style, openedBy, logical, TopCursor)),
              !.pageDimensions = Append(@, <<TRIM_WIDTH_PT, TRIM_HEIGHT_PT>>),
              !.pdfPageCount = @ + 1,
              !.cursor = TopCursor,
              !.currentStyle = style]
  IN IF incrementCounter THEN IncrementCounter(g, style) ELSE g

\* The overflow test in front of renderBlock
Overflows(cursorY, floorY) == cursorY < floorY

DefaultMargins == [inside |-> 375, outside |-> 375, top |-> 375, bottom |-> 375]

\* renderLayout up to the loop over the logical pages
EnterLayout(m) ==
  LET top == [x |-> InchesToPt(m.inside),
              y |-> Pt(TRIM_HEIGHT_PT) - InchesToPt(m.top)]
  IN /\ margins' = m
     /\ pages' = <<NewPage("suppressed", "initial", 0, top)>>
     /\ pageDimensions' = << <<TRIM_WIDTH_PT, TRIM_HEIGHT_PT>> >>
     /\ pdfPageCount' = 1
     /\ cursor' = top
     /\ pendingFootnotes' = <<>>
     /\ currentStyle' = "suppressed"
     /\ romanCounter' = 0
     /\ arabicCounter' = 0
     /\ di' = 0
     /\ bi' = 0

\* The process before the 'end' event of stdin: nothing written, not exited
NewProcess(stdin) ==
  [stdin |-> stdin, stdout |-> <<>>, stderr |-> <<>>, exited |-> FALSE,
   status |-> 0]

\* stdin holds the JSON of a document and an output mode, or no JSON at all
Init ==
  /\ \/ /\ document \in Documents
        /\ outputMode \in OutputModes
        /\ process = NewProcess("json")
     \/ /\ document = Doc(<<>>, <<>>)
        /\ outputMode = "publish-ready"
        /\ process = NewProcess("garbage")
  /\ pc = "stdin"
  /\ pass = 0
  /\ margins = DefaultMargins
  /\ di = 0
  /\ bi = 0
  /\ pages = <<>>
  /\ pageDimensions = <<>>
  /\ pdfPageCount = 0
  /\ cursor = [x |-> 0, y |-> 0]
  /\ pendingFootnotes = <<>>
  /\ currentStyle = "suppressed"
  /\ romanCounter = 0
  /\ arabicCounter = 0
  /\ pass1 = None
  /\ layout = None
  /\ result = None
  /\ call = None

\* JSON.parse succeeds; document and outputMode hold input.document and
\* input.output_mode ?? 'publish-ready'
ParseInput ==
  /\ pc = "stdin"
  /\ process.stdin = "json"
  /\ pc' = "idle"
  /\ process' = [process EXCEPT !.stdin = "end"]
  /\ UNCHANGED <<call, document, outputMode, pass, margins, layoutVars, pass1,
                 layout, result>>

\* JSON.parse throws
ParseFail ==
  /\ pc = "stdin"
  /\ process.stdin = "garbage"
  /\ pc' = "failed"
  /\ process' = [process EXCEPT !.stdin = "end"]
  /\ result' = [error |-> "SyntaxError", at |-> "JSON.parse"]
  /\ UNCHANGED <<call, document, outputMode, pass, margins, layoutVars, pass1,
                 layout>>

\* Pass one entered with the widest bracket's margins in publish-ready mode
GeneratePDF_ModeMargins ==
  /\ pc = "idle"
  /\ pc' = "layout"
  /\ pass' = 1
  /\ EnterLayout(IF outputMode = "publish-ready"
                 THEN calculateMargins(LastBracket) ELSE DefaultMargins)
  /\ UNCHANGED <<call, process, document, outputMode, pass1, layout, result>>

\* generatePDF: pass one is entered with the default margins
GeneratePDF ==
  /\ pc = "idle"
  /\ pc' = "layout"
  /\ pass' = 1
  /\ EnterLayout(DefaultMargins)
  /\ UNCHANGED <<call, process, document, outputMode, pass1, layout, result>>

\* [...document.front_matter, ...document.content_pages] throws TypeError
SpreadThrows ==
  di = 0 /\ document.missing.field \in {"document", "front_matter", "content_pages"}

\* for (const block of docPage.blocks) throws TypeError
BlocksThrow ==
  di > 0 /\ bi = 1 /\ document.missing = Missing("blocks", di)

\* renderLayout throws on a malformed document: the page set built so far is
\* dropped with the rejected promise
LayoutFail ==
  /\ pc = "layout"
  /\ SpreadThrows \/ BlocksThrow
  /\ pc' = "failed"
  /\ result' = [error |-> "TypeError", at |-> "renderLayout"]
  /\ UNCHANGED <<call, process, document, outputMode, pass, margins, layoutVars,
                 pass1, layout>>

AtPageEnd == IF di = 0 THEN TRUE ELSE bi > Len(allDocPages[di].blocks)

\* The first logical page leaving both counters at 0
StartLogicalPage_CountersFromZero ==
  /\ pc = "layout"
  /\ ~SpreadThrows
  /\ ~BlocksThrow
  /\ AtPageEnd
  /\ di < Len(allDocPages)
  /\ LET docPage == allDocPages[di + 1]
         pageStyle == PageStyleOf(docPage)
         e == IF di = 0
              THEN [Engine EXCEPT
                      !.currentStyle = pageStyle,
                      !.pages[1].style = pageStyle,
                      !.pages[1].logical = 1]
              ELSE advancePage(Engine, pageStyle, TRUE, "logical", di + 1)
     IN Assign([e EXCEPT !.cursor = TopCursor])
  /\ di' = di + 1
  /\ bi' = 1
  /\ UNCHANGED <<call, process, document, outputMode, pc, pass, margins, pass1, layout, result>>

\* A logical page with starts_new_page: false going on where the page
\* before it stopped
StartLogicalPage_HonourFlag ==
  /\ pc = "layout"
  /\ ~SpreadThrows
  /\ ~BlocksThrow
  /\ AtPageEnd
  /\ di < Len(allDocPages)
  /\ LET docPage == allDocPages[di + 1]
         pageStyle == PageStyleOf(docPage)
         e == IF di = 0
              THEN [Engine EXCEPT
                      !.currentStyle = pageStyle,
                      !.romanCounter = IF pageStyle = "roman" THEN 1 ELSE @,
                      !.arabicCounter = IF pageStyle = "arabic" THEN 1 ELSE @,
                      !.pages[1].style = pageStyle,
                      !.pages[1].logical = 1]
              ELSE IF docPage.starts_new_page = FALSE
              THEN [Engine EXCEPT !.currentStyle = pageStyle]
              ELSE advancePage(Engine, pageStyle, TRUE, "logical", di + 1)
     IN Assign([e EXCEPT
                  !.cursor = IF di > 0 /\ docPage.starts_new_page = FALSE
                             THEN @ ELSE TopCursor])
  /\ di' = di + 1
  /\ bi' = 1
  /\ UNCHANGED <<call, process, document, outputMode, pc, pass, margins, pass1, layout, result>>

\* The head of the loop over allDocPages: the next logical page begins.
StartLogicalPage ==
  /\ pc = "layout"
  /\ ~SpreadThrows
  /\ ~BlocksThrow
  /\ AtPageEnd
  /\ di < Len(allDocPages)
  /\ LET docPage == allDocPages[di + 1]
         pageStyle == PageStyleOf(docPage)
         e == IF di = 0
              THEN [Engine EXCEPT
                      !.currentStyle = pageStyle,
                      !.romanCounter = IF pageStyle = "roman" THEN 1 ELSE @,
                      !.arabicCounter = IF pageStyle = "arabic" THEN 1 ELSE @,
                      !.pages[1].style = pageStyle,
                      !.pages[1].logical = 1]
              ELSE advancePage(Engine, pageStyle, TRUE, "logical", di + 1)
     IN Assign([e EXCEPT !.cursor = TopCursor])
  /\ di' = di + 1
  /\ bi' = 1
  /\ UNCHANGED <<call, process, document, outputMode, pc, pass, margins, pass1, layout, result>>

\* A page_break block: new PDF page, same style, no counter increment
PageBreakStep ==
  /\ pc = "layout"
  /\ ~AtPageEnd
  /\ LET docPage == allDocPages[di]
         block == docPage.blocks[bi]
         e == advancePage(Engine, PageStyleOf(docPage), FALSE, "break", di)
     IN /\ block.block_type = "page_break"
        /\ Assign([e EXCEPT !.cursor = TopCursor])
  /\ bi' = bi + 1
  /\ UNCHANGED <<call, process, document, outputMode, pc, pass, margins, di, pass1, layout, result>>

\* What one drawn block leaves on its page
Drawn(block, y0, y1, advanced, lines) ==
  [id |-> block.id, block_type |-> block.block_type, y0 |-> y0, y1 |-> y1,
   advanced |-> advanced, lines |-> Len(lines)]

\* Any other block: the overflow check, then renderBlock
RenderStep ==
  /\ pc = "layout"
  /\ ~AtPageEnd
  /\ LET docPage == allDocPages[di]
         pageStyle == PageStyleOf(docPage)
         block == docPage.blocks[bi]
         overflow == Overflows(cursor.y, contentFloorY)
         e == IF overflow
              THEN [IncrementCounter(
                      advancePage(Engine, pageStyle, FALSE, "overflow", di),
                      pageStyle)
                    EXCEPT !.cursor = TopCursor]
              ELSE Engine
         ctx == [cursor |-> e.cursor, contentWidth |-> contentWidth,
                 contentX |-> contentX, pendingFootnotes |-> e.pendingFootnotes]
         r == renderBlock(block, ctx)
         n == Len(e.pages)
     IN /\ block.block_type # "page_break"
        /\ Assign([e EXCEPT
                     !.cursor = r.cursor,
                     !.pendingFootnotes = r.pendingFootnotes,
                     !.pages[n].drawn =
                        IF block.block_type = "footnote" THEN @
                        ELSE Append(@, Drawn(block, e.cursor.y, r.cursor.y,
                                             overflow, r.lines)),
                     !.pages[n].queued =
                        IF block.block_type = "footnote" THEN Append(@, block.id)
                        ELSE @])
  /\ bi' = bi + 1
  /\ UNCHANGED <<call, process, document, outputMode, pc, pass, margins, di, pass1, layout, result>>

LayoutResult(e) ==
  [doc |-> e.pages, pageCount |-> e.pdfPageCount,
   pageDimensions |-> e.pageDimensions,
   insideMarginIn |-> margins.inside, outsideMarginIn |-> margins.outside,
   topMarginIn |-> margins.top, bottomMarginIn |-> margins.bottom]

\* The end of a pass always going back to the margin calculation
FinishLayout_Recheck ==
  /\ pc = "layout"
  /\ ~SpreadThrows
  /\ ~BlocksThrow
  /\ AtPageEnd
  /\ di = Len(allDocPages)
  /\ LET e == finalizeCurrentPage(Engine)
     IN /\ Assign(e)
        /\ pass1' = LayoutResult(e)
        /\ layout' = layout
        /\ pc' = "resolve"
  /\ UNCHANGED <<call, process, document, outputMode, pass, margins, di, bi, result>>

\* The end of a pass returning without finalizeCurrentPage()
FinishLayout_NoFinalize ==
  /\ pc = "layout"
  /\ ~SpreadThrows
  /\ ~BlocksThrow
  /\ AtPageEnd
  /\ di = Len(allDocPages)
  /\ LET e == Engine
     IN /\ Assign(e)
        /\ IF pass = 1
           THEN /\ pass1' = LayoutResult(e)
                /\ layout' = layout
                /\ pc' = "resolve"
           ELSE /\ layout' = LayoutResult(e)
                /\ pass1' = pass1
                /\ pc' = "comply"
  /\ UNCHANGED <<call, process, document, outputMode, pass, margins, di, bi, result>>

\* After the last block of the last logical page: finalize the last page and
\* return the LayoutResult to generatePDF.
FinishLayout ==
  /\ pc = "layout"
  /\ ~SpreadThrows
  /\ ~BlocksThrow
  /\ AtPageEnd
  /\ di = Len(allDocPages)
  /\ LET e == finalizeCurrentPage(Engine)
     IN /\ Assign(e)
        /\ IF pass = 1
           THEN /\ pass1' = LayoutResult(e)
                /\ layout' = layout
                /\ pc' = "resolve"
           ELSE /\ layout' = LayoutResult(e)
                /\ pass1' = pass1
                /\ pc' = "comply"
  /\ UNCHANGED <<call, process, document, outputMode, pass, margins, di, bi, result>>

\* usePass1 decided on the outside margin
UsePass1_Outside(finalMargins) ==
  /\ finalMargins.outside - DefaultMargins.outside < 1
  /\ DefaultMargins.outside - finalMargins.outside < 1

\* Math.abs(finalMargins.inside - defaultIn) < 0.001
UsePass1(finalMargins) ==
  /\ finalMargins.inside - DefaultMargins.inside < 1
  /\ DefaultMargins.inside - finalMargins.inside < 1

\* calculateMargins(pass1.pageCount) throws: generatePDF rejects
MarginsFail ==
  /\ pc = "resolve"
  /\ MarginsThrows(pass1.pageCount)
  /\ pc' = "failed"
  /\ result' = [error |-> "RangeError", at |-> "calculateMargins"]
  /\ UNCHANGED <<call, process, document, outputMode, pass, margins, layoutVars, pass1, layout>>

\* usePass1: the layout of pass one is kept
KeepPass1 ==
  /\ pc = "resolve"
  /\ ~MarginsThrows(pass1.pageCount)
  /\ UsePass1(calculateMargins(pass1.pageCount))
  /\ layout' = pass1
  /\ pc' = "comply"
  /\ UNCHANGED <<call, process, document, outputMode, pass, margins, layoutVars, pass1, result>>

\* Pass two: renderLayout again with the margins of pass one's page count
StartPass2 ==
  /\ pc = "resolve"
  /\ ~MarginsThrows(pass1.pageCount)
  /\ ~UsePass1(calculateMargins(pass1.pageCount))
  /\ pass' = 2
  /\ pc' = "layout"
  /\ EnterLayout(calculateMargins(pass1.pageCount))
  /\ UNCHANGED <<call, process, document, outputMode, pass1, layout, result>>

\* hasOfferPage(document)
hasOfferPage(d) ==
  IF Len(d.content_pages) = 0 THEN FALSE
  ELSE LET lastPage == d.content_pages[Len(d.content_pages)]
       IN \E i \in 1..Len(lastPage.blocks) : lastPage.blocks[i].offer

\* The input of checkCompliance with pass one's page count
ComplianceInput_Pass1Count ==
  [pageDimensions |-> layout.pageDimensions, pageCount |-> pass1.pageCount,
   insideMarginIn |-> layout.insideMarginIn,
   outsideMarginIn |-> layout.outsideMarginIn,
   topMarginIn |-> layout.topMarginIn,
   bottomMarginIn |-> layout.bottomMarginIn,
   fontsEmbedded |-> TRUE,
   offerPagePresent |-> hasOfferPage(document),
   outputMode |-> outputMode]

ComplianceInput ==
  [pageDimensions |-> layout.pageDimensions, pageCount |-> layout.pageCount,
   insideMarginIn |-> layout.insideMarginIn,
   outsideMarginIn |-> layout.outsideMarginIn,
   topMarginIn |-> layout.topMarginIn,
   bottomMarginIn |-> layout.bottomMarginIn,
   fontsEmbedded |-> TRUE,
   offerPagePresent |-> hasOfferPage(document),
   outputMode |-> outputMode]

\* generatePDF rejecting when the report does not pass
ReturnResult_RejectOnViolation ==
  /\ pc = "comply"
  /\ ~MarginsThrows(layout.pageCount)
  /\ IF checkCompliance(ComplianceInput).passes
     THEN /\ pc' = "returned"
          /\ result' = [pdfPages |-> Len(layout.doc),
                        pageCount |-> layout.pageCount,
                        marginsBracket |-> describeMarginBracket(pass1.pageCount),
                        complianceResult |-> checkCompliance(ComplianceInput)]
     ELSE /\ pc' = "failed"
          /\ result' = [error |-> "ComplianceError", at |-> "checkCompliance"]
  /\ UNCHANGED <<call, process, document, outputMode, pass, margins, layoutVars, pass1, layout>>

\* layout.doc.save(), checkCompliance, return
ReturnResult ==
  /\ pc = "comply"
  /\ ~MarginsThrows(layout.pageCount)
  /\ pc' = "returned"
  /\ result' = [pdfPages |-> Len(layout.doc), pageCount |-> layout.pageCount,
                marginsBracket |-> describeMarginBracket(pass1.pageCount),
                complianceResult |-> checkCompliance(ComplianceInput)]
  /\ UNCHANGED <<call, process, document, outputMode, pass, margins, layoutVars, pass1, layout>>

\* checkCompliance calls calculateMargins(layout.pageCount), which throws
ComplianceFail ==
  /\ pc = "comply"
  /\ MarginsThrows(layout.pageCount)
  /\ pc' = "failed"
  /\ result' = [error |-> "RangeError", at |-> "checkCompliance"]
  /\ UNCHANGED <<call, process, document, outputMode, pass, margins, layoutVars, pass1, layout>>

\* process.stdout.write(result.pdfBytes); the process ends with status 0
WriteStdout ==
  /\ pc = "returned"
  /\ pc' = "exited"
  /\ process' = [process EXCEPT !.stdout = Append(@, result.pdfPages),
                                !.exited = TRUE, !.status = 0]
  /\ UNCHANGED <<call, document, outputMode, pass, margins, layoutVars, pass1,
                 layout, result>>

\* The catch handler ending the process with status 0
CatchError_StatusZero ==
  /\ pc = "failed"
  /\ pc' = "exited"
  /\ process' = [process EXCEPT !.stderr = Append(@, result.error),
                                !.exited = TRUE, !.status = 0]
  /\ UNCHANGED <<call, document, outputMode, pass, margins, layoutVars, pass1,
                 layout, result>>

\* catch (err): the message goes to stderr and process.exit(1)
CatchError ==
  /\ pc = "failed"
  /\ pc' = "exited"
  /\ process' = [process EXCEPT !.stderr = Append(@, result.error),
                                !.exited = TRUE, !.status = 1]
  /\ UNCHANGED <<call, document, outputMode, pass, margins, layoutVars, pass1,
                 layout, result>>

Next ==
  \/ ParseInput
  \/ ParseFail
  \/ GeneratePDF
  \/ StartLogicalPage
  \/ PageBreakStep
  \/ RenderStep
  \/ FinishLayout
  \/ LayoutFail
  \/ MarginsFail
  \/ KeepPass1
  \/ StartPass2
  \/ ReturnResult
  \/ ComplianceFail
  \/ WriteStdout
  \/ CatchError

Spec == Init /\ [][Next]_vars

\* ------------------------------------------ the functions called alone
\* calculateMargins, describeMarginBracket and checkCompliance are exported
\* and called by their tests with arguments of the caller's choice. A call
\* holds the arguments of one or two applications of the same function and
\* the outcomes of the applications made so far.
MaxPageCount == 830

PageCounts == 0..MaxPageCount

Thrown == [thrown |-> "RangeError"]

Returned(v) == [value |-> v]

NewCall(fn, args) == [fn |-> fn, args |-> args, rets |-> <<>>]

MarginsCalls ==
  {NewCall("calculateMargins", <<p, p + 1>>) : p \in PageCounts}

DescribeCalls ==
  {NewCall("describeMarginBracket", <<p>>) : p \in PageCounts}

\* Page counts on both sides of the warning threshold, of the first bracket
\* edge and of the last one
CompliancePageCounts ==
  {0, KDP_MIN_PAGE_COUNT - 1, KDP_MIN_PAGE_COUNT,
   INSIDE_MARGIN_BRACKETS[1].maxPages, INSIDE_MARGIN_BRACKETS[1].maxPages + 1,
   LastBracket, LastBracket + 1}

TrimPage == <<TRIM_WIDTH_PT, TRIM_HEIGHT_PT>>

ComplianceInputs ==
  [pageDimensions : {<<TrimPage>>, <<TrimPage, <<TRIM_WIDTH_PT - 1, TRIM_HEIGHT_PT>>>>},
   pageCount : CompliancePageCounts,
   insideMarginIn : {INSIDE_MARGIN_BRACKETS[1].inside - 2,
                     INSIDE_MARGIN_BRACKETS[1].inside,
                     INSIDE_MARGIN_BRACKETS[2].inside,
                     INSIDE_MARGIN_BRACKETS[Len(INSIDE_MARGIN_BRACKETS)].inside},
   outsideMarginIn : {MIN_OUTSIDE_MARGIN_IN - 2, OUTSIDE_MARGIN_INCHES},
   topMarginIn : {MIN_TOP_MARGIN_IN - 2, TOP_MARGIN_INCHES},
   bottomMarginIn : {MIN_BOTTOM_MARGIN_IN - 2, BOTTOM_MARGIN_INCHES},
   fontsEmbedded : BOOLEAN,
   offerPagePresent : BOOLEAN,
   outputMode : OutputModes]

\* The second input is the first with another page count or, when flip is
\* set, the first with the other value of offerPagePresent.
ComplianceCalls ==
  {NewCall("checkCompliance",
           <<i, [i EXCEPT !.pageCount = IF flip THEN @ ELSE q,
                          !.offerPagePresent = IF flip THEN ~@ ELSE @]>>) :
     i \in ComplianceInputs, q \in CompliancePageCounts, flip \in BOOLEAN}

\* Inputs on both sides of every geometry threshold: a page one point off in
\* width or in height, page counts around the first bracket edge, margins
\* two thousandths under, one thousandth under and at the requirement
GeometryValues(field) ==
  CASE field = "pageDimensions" ->
         {<<TrimPage>>, <<TrimPage, <<TRIM_WIDTH_PT - 1, TRIM_HEIGHT_PT>>>>,
          <<<<TRIM_WIDTH_PT, TRIM_HEIGHT_PT + 1>>, TrimPage>>}
    [] field = "pageCount" ->
         {KDP_MIN_PAGE_COUNT - 1, INSIDE_MARGIN_BRACKETS[1].maxPages,
          INSIDE_MARGIN_BRACKETS[1].maxPages + 1}
    [] field = "insideMarginIn" ->
         {INSIDE_MARGIN_BRACKETS[1].inside - 2, INSIDE_MARGIN_BRACKETS[1].inside - 1,
          INSIDE_MARGIN_BRACKETS[1].inside, INSIDE_MARGIN_BRACKETS[2].inside}
    [] field = "outsideMarginIn" ->
         {MIN_OUTSIDE_MARGIN_IN - 2, MIN_OUTSIDE_MARGIN_IN - 1, OUTSIDE_MARGIN_INCHES}
    [] field = "topMarginIn" ->
         {MIN_TOP_MARGIN_IN - 2, MIN_TOP_MARGIN_IN - 1, TOP_MARGIN_INCHES}
    [] field = "bottomMarginIn" ->
         {MIN_BOTTOM_MARGIN_IN - 2, MIN_BOTTOM_MARGIN_IN - 1, BOTTOM_MARGIN_INCHES}

GeometryFields ==
  {"pageDimensions", "pageCount", "insideMarginIn", "outsideMarginIn",
   "topMarginIn", "bottomMarginIn"}

GeometryInputs ==
  [pageDimensions : GeometryValues("pageDimensions"),
   pageCount : GeometryValues("pageCount"),
   insideMarginIn : GeometryValues("insideMarginIn"),
   outsideMarginIn : GeometryValues("outsideMarginIn"),
   topMarginIn : GeometryValues("topMarginIn"),
   bottomMarginIn : GeometryValues("bottomMarginIn"),
   fontsEmbedded : {TRUE},
   offerPagePresent : {TRUE},
   outputMode : {"publish-ready"}]

\* The second input is the first with one geometry field changed.
GeometryChanges ==
  UNION {{<<f, v>> : v \in GeometryValues(f)} : f \in GeometryFields}

GeometryCalls ==
  {NewCall("checkCompliance", <<x[1], [x[1] EXCEPT ![x[2][1]] = x[2][2]]>>) :
     x \in {y \in GeometryInputs \X GeometryChanges : y[1][y[2][1]] # y[2][2]}}

\* The most tokens of a paragraph given to wrapText
MaxWords == 3

\* The paragraphs of at most n tokens: empty tokens, two-glyph words that go
\* two to a 30pt line of body text, and eight-glyph words wider than 30pt
RECURSIVE WordLists(_)
WordLists(n) ==
  IF n = 0 THEN {<<>>}
  ELSE LET prev == WordLists(n - 1)
       IN prev \cup {Append(p, w) : p \in prev, w \in {0, 2, 8}}

\* The string of length 0 and the texts of one or two paragraphs
Texts ==
  {SubSeq(<<p, q>>, 1, n) :
     n \in 0..2, p \in WordLists(MaxWords), q \in WordLists(MaxWords)}

\* wrapText at body and title size, 30pt wide and at the content width of
\* the default margins
WrapTextCalls ==
  {NewCall("wrapText", <<[text |-> t, size |-> size, maxWidth |-> w]>>) :
     t \in Texts,
     size \in {FONT_SIZES.BODY, FONT_SIZES.TITLE},
     w \in {Pt(30), Pt(TRIM_WIDTH_PT) - 2 * InchesToPt(DefaultMargins.inside)}}

\* renderBlock on a block of every type, its content one paragraph or two of
\* at most one token each, in a context narrow (102pt, a block quote 30pt) or
\* of the default width, with no footnote pending or one
RenderBlockCalls ==
  {NewCall("renderBlock",
           <<[block |-> Blk(type, t),
              ctx |-> [cursor |-> [x |-> InchesToPt(DefaultMargins.inside), y |-> y],
                       contentWidth |-> w,
                       contentX |-> InchesToPt(DefaultMargins.inside),
                       pendingFootnotes |-> f]]>>) :
     type \in BlockTypes,
     t \in {u \in Texts : Len(u) <= 1 \/ \A k \in 1..Len(u) : Len(u[k]) <= 1},
     y \in {Pt(TRIM_HEIGHT_PT) - InchesToPt(DefaultMargins.top),
            InchesToPt(DefaultMargins.bottom) + Pt(PAGE_NUMBER_HEIGHT_PT)},
     w \in {Pt(30) + 2 * Pt(BLOCK_QUOTE_INDENT),
            Pt(TRIM_WIDTH_PT) - 2 * InchesToPt(DefaultMargins.inside)},
     f \in {<<>>, <<Footnote>>}}

\* toRoman on a number and on the next, from -1 on
RomanCalls == {NewCall("toRoman", <<n, n + 1>>) : n \in -1..MaxPageCount}

\* The call belongs to one of the four families of calls.
InCalls(c) ==
  \/ c \in MarginsCalls
  \/ c \in DescribeCalls
  \/ c \in ComplianceCalls
  \/ c \in GeometryCalls

\* The argument of the application to make next
NextArg == call.args[Len(call.rets) + 1]

Applying(fn) ==
  /\ call # None
  /\ call.fn = fn
  /\ Len(call.rets) < Len(call.args)

engineVars ==
  <<process, document, outputMode, pc, pass, margins, di, bi, pages, pageDimensions,
    pdfPageCount, cursor, pendingFootnotes, currentStyle, romanCounter,
    arabicCounter, pass1, layout, result>>

CallCalculateMargins ==
  /\ Applying("calculateMargins")
  /\ call' = [call EXCEPT !.rets =
                Append(@, IF MarginsThrows(NextArg) THEN Thrown
                          ELSE Returned(calculateMargins(NextArg)))]
  /\ UNCHANGED engineVars

CallDescribeMarginBracket ==
  /\ Applying("describeMarginBracket")
  /\ call' = [call EXCEPT !.rets =
                Append(@, IF DescribeThrows(NextArg) THEN Thrown
                          ELSE Returned(describeMarginBracket(NextArg)))]
  /\ UNCHANGED engineVars

\* checkCompliance throws what calculateMargins(input.pageCount) throws
CallCheckCompliance ==
  /\ Applying("checkCompliance")
  /\ call' = [call EXCEPT !.rets =
                Append(@, IF MarginsThrows(NextArg.pageCount) THEN Thrown
                          ELSE Returned(checkCompliance(NextArg)))]
  /\ UNCHANGED engineVars

CallToRoman ==
  /\ Applying("toRoman")
  /\ call' = [call EXCEPT !.rets = Append(@, Returned(toRoman(NextArg)))]
  /\ UNCHANGED engineVars

CallWrapText ==
  /\ Applying("wrapText")
  /\ call' = [call EXCEPT !.rets =
                Append(@, Returned(wrapText(NextArg.text, NextArg.size,
                                            NextArg.maxWidth)))]
  /\ UNCHANGED engineVars

\* The value returned holds the cursor returned, the context's
\* pendingFootnotes after the call and the lines drawn on the context's page.
CallRenderBlock ==
  /\ Applying("renderBlock")
  /\ call' = [call EXCEPT !.rets =
                Append(@, Returned(renderBlock(NextArg.block, NextArg.ctx)))]
  /\ UNCHANGED engineVars

\* generatePDF is not called
NotCalled ==
  /\ process = NewProcess("closed")
  /\ document = Doc(<<>>, <<>>)
  /\ outputMode = "personal"
  /\ pc = "none"
  /\ pass = 0
  /\ margins = DefaultMargins
  /\ di = 0
  /\ bi = 0
  /\ pages = <<>>
  /\ pageDimensions = <<>>
  /\ pdfPageCount = 0
  /\ cursor = [x |-> 0, y |-> 0]
  /\ pendingFootnotes = <<>>
  /\ currentStyle = "suppressed"
  /\ romanCounter = 0
  /\ arabicCounter = 0
  /\ pass1 = None
  /\ layout = None
  /\ result = None

FunctionsInit == InCalls(call) /\ NotCalled

FunctionsNext ==
  \/ CallCalculateMargins
  \/ CallDescribeMarginBracket
  \/ CallCheckCompliance

SpecFunctions == FunctionsInit /\ [][FunctionsNext]_vars

\* generatePDF and the two functions of margins.ts it calls, side by side
MarginsInit == (call \in MarginsCalls \/ call \in DescribeCalls) /\ NotCalled

MarginsNext == Next \/ CallCalculateMargins \/ CallDescribeMarginBracket

SpecMargins == (Init \/ MarginsInit) /\ [][MarginsNext]_vars

\* toRoman called alone
RomanInit == call \in RomanCalls /\ NotCalled

RomanNext == CallToRoman

SpecRoman == RomanInit /\ [][RomanNext]_vars

\* wrapText and renderBlock of blocks.ts called alone
BlocksInit == (call \in WrapTextCalls \/ call \in RenderBlockCalls) /\ NotCalled

BlocksNext == CallWrapText \/ CallRenderBlock

SpecBlocks == BlocksInit /\ [][BlocksNext]_vars

\* generatePDF and the functions of margins.ts and of compliance.ts called
\* alone, side by side
AllInit == Init \/ FunctionsInit

AllNext == Next \/ FunctionsNext

SpecAll == AllInit /\ [][AllNext]_vars

\* ------------------------------------ generatePDF called in both modes
\* A caller generates one document in personal mode and, once that call has
\* settled, in publish-ready mode; call keeps what the first call left.
ModeDocs ==
  BigDocs \cup OfferDocs \cup MalformedDocs \cup ContinuedDocs
  \cup {FrontAndContentDoc, AllTypesDoc}

\* What a settled generatePDF call leaves: the promise's outcome, the
\* margins of the last pass and the pages it laid out.
Outcome == [result |-> result, margins |-> margins, pages |-> pages]

ModesInit ==
  /\ document \in ModeDocs
  /\ outputMode = "personal"
  /\ process = NewProcess("closed")
  /\ pc = "idle"
  /\ pass = 0
  /\ margins = DefaultMargins
  /\ di = 0
  /\ bi = 0
  /\ pages = <<>>
  /\ pageDimensions = <<>>
  /\ pdfPageCount = 0
  /\ cursor = [x |-> 0, y |-> 0]
  /\ pendingFootnotes = <<>>
  /\ currentStyle = "suppressed"
  /\ romanCounter = 0
  /\ arabicCounter = 0
  /\ pass1 = None
  /\ layout = None
  /\ result = None
  /\ call = None

\* The first call has settled: the same document is generated again, in
\* publish-ready mode, by a call that shares nothing with the first.
CallAgain ==
  /\ pc \in {"returned", "failed"}
  /\ call = None
  /\ call' = [NewCall("generatePDF", <<document, outputMode>>)
                EXCEPT !.rets = <<Outcome>>]
  /\ outputMode' = "publish-ready"
  /\ pc' = "idle"
  /\ pass' = 0
  /\ margins' = DefaultMargins
  /\ pass1' = None
  /\ layout' = None
  /\ result' = None
  /\ UNCHANGED <<process, document, layoutVars>>

ModesNext ==
  \/ GeneratePDF
  \/ StartLogicalPage
  \/ PageBreakStep
  \/ RenderStep
  \/ FinishLayout
  \/ LayoutFail
  \/ MarginsFail
  \/ KeepPass1
  \/ StartPass2
  \/ ReturnResult
  \/ ComplianceFail
  \/ CallAgain

SpecModes == ModesInit /\ [][ModesNext]_vars

\* ------------------------------------------------------------- properties
\* The layout pass in work has run to its end.
LayoutDone ==
  \/ pc \in {"resolve", "comply", "returned"}
  \/ pc = "failed" /\ result.at \in {"calculateMargins", "checkCompliance"}

BlockAt(id) == allDocPages[id[1]].blocks[id[2]]

Numbered(style) == style \in {"roman", "arabic"}

HasPageBreak(docPage) ==
  \E i \in 1..Len(docPage.blocks) : docPage.blocks[i].block_type = "page_break"

\* C1: within one logical page of Roman or Arabic style, every physical page
\* opened by overflow shows the number of the page before it plus one; a
\* document of a single Roman or Arabic logical page without a page break
\* shows 1, 2, 3, ... on its physical pages.
C1_OverflowIncrementsCounter ==
  /\ \A p \in 2..Len(pages) :
       (pages[p].openedBy = "overflow" /\ pages[p].finalized > 0
          /\ Numbered(pages[p].style))
       => /\ pages[p - 1].style = pages[p].style
          /\ pages[p - 1].logical = pages[p].logical
          /\ pages[p].numDisplay = pages[p - 1].numDisplay + 1
  /\ (LayoutDone /\ Len(allDocPages) = 1
        /\ Numbered(PageStyleOf(allDocPages[1]))
        /\ ~HasPageBreak(allDocPages[1]))
     => \A p \in 1..Len(pages) :
          pages[p].numDisplay = p /\ pages[p].numbered

\* A single Arabic logical page without page break laid out on three pages
C1_Witness ==
  /\ pc = "returned"
  /\ Len(allDocPages) = 1
  /\ PageStyleOf(allDocPages[1]) = "arabic"
  /\ ~HasPageBreak(allDocPages[1])
  /\ \A i \in 1..Len(allDocPages[1].blocks) :
       allDocPages[1].blocks[i].block_type = "body_text"
  /\ Len(pages) = 3
  /\ pages[2].openedBy = "overflow"
  /\ pages[3].openedBy = "overflow"

\* C2: a block whose drawing takes the cursor below contentFloorY is drawn
\* only after the engine has finalized the page and opened a new one, so
\* every block drawn below the top of the content area without a page
\* advance in front of it ends at or above the floor.
C2_AdvanceBeforeOverflowingBlock ==
  \A p \in 1..Len(pages) :
    \A k \in 1..Len(pages[p].drawn) :
      (pages[p].drawn[k].y0 < contentTopY /\ pages[p].drawn[k].y1 < contentFloorY)
      => pages[p].drawn[k].advanced

\* C3: a page_break block finalizes the page, opens exactly one page of the
\* same style, changes neither counter, resets the cursor to the top of the
\* content area and draws nothing; the page it opens displays the number of
\* the page before it.
C3_Step ==
  (pc = "layout" /\ ~AtPageEnd /\ bi' = bi + 1
     /\ BlockAt(<<di, bi>>).block_type = "page_break")
  => /\ Len(pages') = Len(pages) + 1
     /\ pdfPageCount' = pdfPageCount + 1
     /\ pages'[Len(pages)].finalized = 1
     /\ pages'[Len(pages)].drawn = pages[Len(pages)].drawn
     /\ pages'[Len(pages')].drawn = <<>>
     /\ pages'[Len(pages')].style = PageStyleOf(allDocPages[di])
     /\ currentStyle' = currentStyle
     /\ currentStyle' = PageStyleOf(allDocPages[di])
     /\ romanCounter' = romanCounter
     /\ arabicCounter' = arabicCounter
     /\ cursor' = TopCursor

C3_Display ==
  \A p \in 2..Len(pages) :
    pages[p].openedBy = "break"
    => /\ pages[p].style = pages[p - 1].style
       /\ pages[p].cursorAtOpen = TopCursor
       /\ pages[p - 1].finalized = 1
       /\ pages[p].finalized > 0
          => /\ pages[p].numDisplay = pages[p - 1].numDisplay
             /\ pages[p].numbered = pages[p - 1].numbered

\* C3: every page_break step has the effect C3_Step states, and the page it
\* opens keeps the style and displays the number of the page before it.
C3_PageBreak == []C3_Display /\ [][C3_Step]_vars

\* A numbered page opened by a page break has been finalized.
C3_Witness ==
  \E p \in 2..Len(pages) :
    /\ pages[p].openedBy = "break"
    /\ pages[p].finalized = 1
    /\ pages[p].numbered
    /\ pages[p].numDisplay >= 2

\* C4: a footnote is drawn on the physical page that holds the block drawn
\* right before it in its logical page.
C4_FootnoteOnTriggerPage ==
  \A p \in 1..Len(pages) :
    \A k \in 1..Len(pages[p].footnotes) :
      LET id == pages[p].footnotes[k]
      IN (id[2] > 1
            /\ BlockAt(<<id[1], id[2] - 1>>).block_type
                 \notin {"footnote", "page_break"})
         => \E j \in 1..Len(pages[p].drawn) :
              pages[p].drawn[j].id = <<id[1], id[2] - 1>>

FootnoteIdsOfDoc ==
  UNION {{<<d, b>> : b \in {c \in 1..Len(allDocPages[d].blocks) :
                              allDocPages[d].blocks[c].block_type = "footnote"}} :
         d \in 1..Len(allDocPages)}

\* The places <<page, position>> where footnote id has been drawn
DrawnAt(id) ==
  UNION {{<<p, k>> : k \in {j \in 1..Len(pages[p].footnotes) :
                              pages[p].footnotes[j] = id}} :
         p \in 1..Len(pages)}

\* id1 comes before id2 in the document
Before(id1, id2) ==
  id1[1] < id2[1] \/ (id1[1] = id2[1] /\ id1[2] < id2[2])

\* C5: every footnote block is drained exactly once: it is drawn on the page
\* that was open when it was queued and nowhere else, never dropped nor
\* drawn twice, in queue order, and nothing is pending when the layout is
\* done.
C5_FootnotesDrainedOnce ==
  /\ \A p \in 1..Len(pages) :
       /\ pages[p].finalized <= 1
       /\ IF pages[p].finalized = 1
          THEN pages[p].footnotes = pages[p].queued
          ELSE /\ p = Len(pages)
               /\ pages[p].footnotes = <<>>
               /\ BlockIds(pendingFootnotes) = pages[p].queued
       /\ \A j, k \in 1..Len(pages[p].footnotes) :
            j < k => Before(pages[p].footnotes[j], pages[p].footnotes[k])
       /\ \A k \in 1..Len(pages[p].footnotes) :
            pages[p].footnotes[k] \in FootnoteIdsOfDoc
  /\ \A id \in FootnoteIdsOfDoc : Cardinality(DrawnAt(id)) <= 1
  /\ LayoutDone
     => /\ pendingFootnotes = <<>>
        /\ \A p \in 1..Len(pages) : pages[p].finalized = 1
        /\ \A id \in FootnoteIdsOfDoc : Cardinality(DrawnAt(id)) = 1

\* Two footnotes drained on a page that is not the first
C5_Witness ==
  /\ pc = "returned"
  /\ \E p \in 2..Len(pages) : Len(pages[p].footnotes) >= 2

\* generatePDF has returned, or thrown after laying the document out
Terminal == LayoutDone /\ pc \in {"returned", "failed"}

PassTwoRan ==
  /\ pass = 2
  /\ margins = calculateMargins(pass1.pageCount)
  /\ pass1.insideMarginIn = DefaultMargins.inside

ReturnsPassTwo ==
  /\ pc = "returned"
  /\ layout.doc = pages
  /\ layout.pageCount = pdfPageCount
  /\ layout.insideMarginIn = calculateMargins(pass1.pageCount).inside
  /\ layout.outsideMarginIn = calculateMargins(pass1.pageCount).outside
  /\ layout.topMarginIn = calculateMargins(pass1.pageCount).top
  /\ layout.bottomMarginIn = calculateMargins(pass1.pageCount).bottom

ReturnsPassOne ==
  /\ pc = "returned"
  /\ pass = 1
  /\ layout = pass1
  /\ layout.insideMarginIn = DefaultMargins.inside

C7_InsideMarginOfFinalCount ==
  pc = "returned"
  => /\ layout.insideMarginIn = calculateMargins(layout.pageCount).inside
     /\ result.complianceResult.inside_margin_correct

\* C8: in a layout pass the page count equals the number of pages added to
\* the document and the length of pageDimensions; the returned pageCount is
\* the number of pages of the returned PDF.
C8_PageCountMatchesPages ==
  /\ pass >= 1
     => /\ pdfPageCount = Len(pages)
        /\ pdfPageCount = Len(pageDimensions)
  /\ pc \in {"comply", "returned"}
     => /\ layout.pageCount = Len(layout.doc)
        /\ layout.pageCount = Len(layout.pageDimensions)
  /\ pc = "returned"
     => /\ result.pageCount = result.pdfPages
        /\ result.pageCount = layout.pageCount
        /\ result.complianceResult.page_count = result.pdfPages

\* A returned layout with pages opened by a page break and by overflow
C8_Witness ==
  /\ pc = "returned"
  /\ \E q, r \in 2..Len(pages) :
       /\ pages[q].openedBy = "break"
       /\ pages[r].openedBy = "overflow"

\* C9: starting a logical page that is not the first finalizes the open page
\* (pending footnotes flushed, number drawn with the old style and counter),
\* opens one page, resets the cursor, adopts the new style and increments
\* that style's counter by one when it is Roman or Arabic; the first logical
\* page uses the open page and sets its style's counter to 1.
C9_Step ==
  (pc = "layout" /\ di' = di + 1)
  => LET style == PageStyleOf(allDocPages[di + 1])
         n == Len(pages)
     IN /\ cursor' = TopCursor
        /\ currentStyle' = style
        /\ IF di = 0
           THEN /\ Len(pages') = n
                /\ pdfPageCount' = pdfPageCount
                /\ pages'[n].finalized = 0
                /\ romanCounter' = IF style = "roman" THEN 1 ELSE romanCounter
                /\ arabicCounter' = IF style = "arabic" THEN 1 ELSE arabicCounter
           ELSE /\ Len(pages') = n + 1
                /\ pdfPageCount' = pdfPageCount + 1
                /\ pages'[n].finalized = 1
                /\ pages'[n].footnotes =
                     pages[n].footnotes \o BlockIds(pendingFootnotes)
                /\ pages'[n].drawn = pages[n].drawn
                /\ pages'[n].style = currentStyle
                /\ pages'[n].numbered = (currentStyle # "suppressed")
                /\ pages'[n].numDisplay =
                     IF currentStyle = "roman" THEN romanCounter ELSE arabicCounter
                /\ pendingFootnotes' = <<>>
                /\ pages'[n + 1] = NewPage(style, "logical", di + 1, TopCursor)
                /\ romanCounter' =
                     romanCounter + IF style = "roman" THEN 1 ELSE 0
                /\ arabicCounter' =
                     arabicCounter + IF style = "arabic" THEN 1 ELSE 0

\* C9: every start of a logical page has the effect C9_Step states.
C9_StartLogicalPage == [][C9_Step]_vars

\* A later logical page has started on a page with pending footnotes, its
\* own style differing from the style of the page it closed.
C9_Witness ==
  \E p \in 2..Len(pages) :
    /\ pages[p].openedBy = "logical"
    /\ Len(pages[p - 1].footnotes) > 0
    /\ Numbered(pages[p].style)
    /\ Numbered(pages[p - 1].style)
    /\ pages[p].style # pages[p - 1].style

NoOverflowNoBreak ==
  \A p \in 1..Len(pages) : pages[p].openedBy \notin {"overflow", "break"}

LogicalPagesOfStyle(style) ==
  Cardinality({d \in 1..Len(allDocPages) : PageStyleOf(allDocPages[d]) = style})

Scenario8 ==
  (pc = "returned" /\ document = FrontAndContentDoc)
  => /\ result.pageCount = 8
     /\ Len(pages) = 8
     /\ romanCounter = 2
     /\ arabicCounter = 5
     /\ outputMode = "personal"
        => /\ result.complianceResult.violations = <<>>
           /\ result.complianceResult.passes

\* C10 as stated: without overflow and page break there are as many physical
\* pages as logical pages.
C10_Original ==
  /\ (LayoutDone /\ NoOverflowNoBreak)
     => /\ Len(pages) = Len(allDocPages)
        /\ romanCounter = LogicalPagesOfStyle("roman")
        /\ arabicCounter = LogicalPagesOfStyle("arabic")
  /\ Scenario8

\* C10, amended: without overflow and page break there are as many physical
\* pages as logical pages, and one physical page when the document has no
\* logical page; each counter ends at the number of logical pages of its
\* style; the document of three front-matter and five content pages gives
\* eight pages, Roman 2, Arabic 5 and no violation in personal mode.
C10_OnePagePerLogicalPage ==
  /\ (LayoutDone /\ NoOverflowNoBreak)
     => /\ Len(pages) = IF Len(allDocPages) = 0 THEN 1 ELSE Len(allDocPages)
        /\ pdfPageCount = Len(pages)
        /\ romanCounter = LogicalPagesOfStyle("roman")
        /\ arabicCounter = LogicalPagesOfStyle("arabic")
  /\ Scenario8

C10_Witness ==
  /\ pc = "returned"
  /\ document = FrontAndContentDoc
  /\ outputMode = "personal"
  /\ NoOverflowNoBreak


\* ------------------------------------------------------------------ C11
\* The call of the given function has made all its applications.
Applied(fn) ==
  /\ call # None
  /\ call.fn = fn
  /\ Len(call.rets) = Len(call.args)

\* The inside margin the bracket table of FR-85 gives a page count
TableInside(p) ==
  IF p <= 150 THEN 375
  ELSE IF p <= 300 THEN 500
  ELSE IF p <= 500 THEN 625
  ELSE IF p <= 700 THEN 750
  ELSE 875

BracketEdges == {150, 300, 500, 700}

\* C11: calculateMargins is a non-decreasing step function of the page count:
\* for every P <= 828 it returns the inside margin of the FR-85 table and
\* 0.375in for outside, top and bottom; for consecutive page counts P and
\* P + 1 the inside margin never decreases, and it grows by exactly 0.125in
\* when P is a bracket edge (150, 300, 500, 700).
C11_MarginsStepFunction ==
  Applied("calculateMargins") =>
    LET p == call.args[1]
        r1 == call.rets[1]
        r2 == call.rets[2]
    IN /\ \A i \in 1..2 :
            call.args[i] <= 828 =>
              /\ call.rets[i] # Thrown
              /\ call.rets[i].value =
                   [inside |-> TableInside(call.args[i]), outside |-> 375,
                    top |-> 375, bottom |-> 375]
       /\ (r1 # Thrown /\ r2 # Thrown) =>
            /\ r2.value.inside >= r1.value.inside
            /\ IF p \in BracketEdges
               THEN r2.value.inside - r1.value.inside = 125
               ELSE r2.value.inside = r1.value.inside

\* calculateMargins has been applied to both sides of the edge 300 | 301.
C11_Witness ==
  /\ Applied("calculateMargins")
  /\ call.args[1] = 300
  /\ call.rets = <<Returned([inside |-> 500, outside |-> 375, top |-> 375,
                             bottom |-> 375]),
                   Returned([inside |-> 625, outside |-> 375, top |-> 375,
                             bottom |-> 375])>>

DiffersInPageCountOnly ==
  call.args[2] = [call.args[1] EXCEPT !.pageCount = call.args[2].pageCount]

OtherRulesSatisfied(input) ==
  /\ \A i \in 1..Len(input.pageDimensions) : input.pageDimensions[i] = <<432, 648>>
  /\ input.pageCount <= 828
  /\ input.insideMarginIn >= TableInside(input.pageCount)
  /\ input.outsideMarginIn >= 250
  /\ input.topMarginIn >= 250
  /\ input.bottomMarginIn >= 250
  /\ input.fontsEmbedded

\* C14: with every other rule satisfied and the offer page absent,
\* publish-ready mode reports offer_page_present = false, the one FR-94
\* violation and passes = false, while personal mode reports
\* offer_page_present = true and passes = true; in personal mode two inputs
\* that differ only in offerPagePresent get the same result.
C14_ModeSensitivity ==
  Applied("checkCompliance") =>
    /\ \A i \in 1..2 :
         (OtherRulesSatisfied(call.args[i]) /\ ~call.args[i].offerPagePresent) =>
           /\ call.rets[i] # Thrown
           /\ IF call.args[i].outputMode = "publish-ready"
              THEN /\ ~call.rets[i].value.offer_page_present
                   /\ call.rets[i].value.violations = <<"offer">>
                   /\ ~call.rets[i].value.passes
              ELSE /\ call.rets[i].value.offer_page_present
                   /\ call.rets[i].value.violations = <<>>
                   /\ call.rets[i].value.passes
    /\ ( /\ call.args[1].outputMode = "personal"
         /\ call.args[2] = [call.args[1] EXCEPT
                              !.offerPagePresent = call.args[2].offerPagePresent] )
       => call.rets[1] = call.rets[2]

\* Personal mode, the offer page present in the first input and absent in the
\* second, every other rule satisfied: both reports pass.
C14_Witness ==
  /\ Applied("checkCompliance")
  /\ call.args[1].outputMode = "personal"
  /\ call.args[1].offerPagePresent
  /\ call.args[2] = [call.args[1] EXCEPT !.offerPagePresent = FALSE]
  /\ OtherRulesSatisfied(call.args[1])
  /\ call.rets[2].value.passes
  /\ call.rets[2].value.offer_page_present

\* ------------------------------------------------------------------ C15
\* The rule flags of a report, in the order the rules are checked, each with
\* the entry its failure pushes
RuleFlags(report) ==
  << <<report.trim_size_correct, "trim">>,
     <<report.inside_margin_correct, "inside">>,
     <<report.outside_margin_correct, "outside">>,
     <<report.top_margin_correct, "top">>,
     <<report.bottom_margin_correct, "bottom">>,
     <<report.fonts_embedded, "fonts">>,
     <<report.offer_page_present, "offer">> >>

RECURSIVE FailedRules(_)
FailedRules(flags) ==
  IF flags = <<>> THEN <<>>
  ELSE (IF Head(flags)[1] THEN <<>> ELSE <<Head(flags)[2]>>)
       \o FailedRules(Tail(flags))

\* C15: in every report passes is true exactly when violations is empty;
\* violations holds one entry per failed rule, in the order trim, inside,
\* outside, top, bottom, fonts, offer page, with no short circuit; so passes
\* is true exactly when all seven rule flags are true.
C15_PassesIffNoViolations ==
  Applied("checkCompliance") =>
    \A i \in 1..2 :
      call.rets[i] # Thrown =>
        LET report == call.rets[i].value
        IN /\ report.passes <=> report.violations = <<>>
           /\ report.violations = FailedRules(RuleFlags(report))
           /\ report.passes <=>
                \A k \in 1..7 : RuleFlags(report)[k][1]

\* A publish-ready input that fails all seven rules: seven violations in order.
C15_Witness ==
  /\ Applied("checkCompliance")
  /\ call.rets[1] # Thrown
  /\ call.rets[1].value.violations =
       <<"trim", "inside", "outside", "top", "bottom", "fonts", "offer">>
  /\ ~call.rets[1].value.passes

\* ------------------------------------------------------------------ C16
\* A block with the offer text is drawn on the last physical page of the
\* output and that page belongs to a content page.
MarkerOnLastPhysicalPage ==
  LET last == layout.doc[Len(layout.doc)]
      ids == {last.drawn[k].id : k \in 1..Len(last.drawn)}
             \cup {last.footnotes[k] : k \in 1..Len(last.footnotes)}
  IN /\ Len(document.content_pages) > 0
     /\ last.logical > Len(document.front_matter)
     /\ \E id \in ids : BlockAt(id).offer

\* C16: in publish-ready mode the report of generatePDF has
\* offer_page_present = true only if the offer page is the last physical page
\* of the output; a document whose offer text is not on the last physical
\* page, or without content pages, gets offer_page_present = false and
\* passes = false.
C16_OfferPageIsLastPhysicalPage ==
  (pc = "returned" /\ outputMode = "publish-ready") =>
    LET report == result.complianceResult
    IN /\ report.offer_page_present => MarkerOnLastPhysicalPage
       /\ ~MarkerOnLastPhysicalPage =>
            (~report.offer_page_present /\ ~report.passes)

\* ------------------------------------------------------------------ C17
\* Some rule of checkCompliance other than the inside margin is violated by
\* the input, or the inside margin is below the bracket of the page count.
RuleViolated(input) ==
  \/ \E i \in 1..Len(input.pageDimensions) : input.pageDimensions[i] # <<432, 648>>
  \/ input.pageCount <= 828 /\ input.insideMarginIn + 1 < TableInside(input.pageCount)
  \/ input.outsideMarginIn + 1 < 250
  \/ input.topMarginIn + 1 < 250
  \/ input.bottomMarginIn + 1 < 250
  \/ ~input.fontsEmbedded
  \/ input.outputMode = "publish-ready" /\ ~input.offerPagePresent

\* generatePDF has called checkCompliance.
ComplianceReached == pc \in {"returned", "failed"} /\ layout # None

\* generatePDF has returned bytes, page count, bracket label and report.
ReturnedWithReport ==
  /\ pc = "returned"
  /\ DOMAIN result = {"pdfPages", "pageCount", "marginsBracket", "complianceResult"}
  /\ result.pdfPages = Len(layout.doc)
  /\ result.pageCount = layout.pageCount

Succeeded == "pdfPages" \in DOMAIN result

\* C18: every fatal failure aborts the whole call with no partial output:
\* an error raised while parsing the input or generating the PDF ends the
\* process with status 1 and a message on stderr and nothing on stdout, and
\* stdout receives the bytes only after generatePDF has returned.
C18_NoPartialOutput ==
  /\ process.stdout # <<>> =>
       (pc = "exited" /\ Succeeded /\ process.stdout = <<result.pdfPages>>)
  /\ pc = "failed" => (process.stdout = <<>> /\ ~process.exited)
  /\ (pc = "exited" /\ ~Succeeded) =>
       /\ process.status = 1
       /\ process.stderr = <<result.error>>
       /\ process.stdout = <<>>
  /\ (pc = "exited" /\ Succeeded) =>
       (process.status = 0 /\ process.stderr = <<>>)

\* The process has ended with status 1 after renderLayout threw with two
\* pages already opened.
C18_Witness ==
  /\ pc = "exited"
  /\ process.status = 1
  /\ process.stderr = <<"TypeError">>
  /\ process.stdout = <<>>
  /\ Len(pages) = 2

\* ------------------------------------------------------------------ C19
\* C19: a document with missing required fields is fatal and is reported
\* before any layout work begins: the call never returns, and no page has
\* been opened when the error is raised.
C19_RejectedBeforeLayout ==
  document.missing.field # "none" =>
    /\ pc \notin {"resolve", "comply", "returned"}
    /\ pc = "failed" => (pages = <<>> /\ pdfPageCount = 0)

\* ------------------------------------------------------------------ C22
\* B: the number of blocks of the document
RECURSIVE BlocksOfPages(_, _, _)
BlocksOfPages(docPages, lo, hi) ==
  IF lo > hi THEN 0
  ELSE IF lo = hi THEN Len(docPages[lo].blocks)
  ELSE LET mid == (lo + hi) \div 2
       IN BlocksOfPages(docPages, lo, mid) + BlocksOfPages(docPages, mid + 1, hi)

TotalBlocks == BlocksOfPages(allDocPages, 1, Len(allDocPages))

\* max(1, L) + B
PageBound ==
  (IF Len(allDocPages) = 0 THEN 1 ELSE Len(allDocPages)) + TotalBlocks

\* How far the call has come: the stages of runSubprocess and generatePDF in
\* the order they are passed
Stage(p, n) ==
  CASE p = "stdin" -> 0
    [] p = "idle" -> 1
    [] p = "layout" /\ n = 1 -> 2
    [] p = "resolve" -> 3
    [] p = "layout" /\ n = 2 -> 4
    [] p = "comply" -> 5
    [] p \in {"returned", "failed"} -> 6
    [] p = "exited" -> 7

\* Every step moves to a later stage or, within a layout pass, to a later
\* block or logical page.
C22_Step ==
  \/ Stage(pc', pass') > Stage(pc, pass)
  \/ /\ Stage(pc', pass') = Stage(pc, pass)
     /\ pc = "layout"
     /\ di' > di \/ (di' = di /\ bi' > bi)

\* A pass has opened at most max(1, L) + B pages; B is counted only when the
\* pass has opened more pages than the document has logical pages.
WithinPageBound(n) ==
  n <= Len(document.front_matter) + Len(document.content_pages)
  \/ n <= PageBound

C22_Bounds ==
  /\ pass \in 0..2
  /\ pc = "layout" => pass \in 1..2
  /\ di \in 0..(Len(document.front_matter) + Len(document.content_pages))
  /\ di > 0 =>
       LET front == Len(document.front_matter)
           page == IF di <= front THEN document.front_matter[di]
                   ELSE document.content_pages[di - front]
       IN bi \in 1..(Len(page.blocks) + 1)
  /\ WithinPageBound(Len(pages))
  /\ WithinPageBound(pdfPageCount)

\* C22: generatePDF always terminates: every step advances through the
\* finitely many stages of the call or through the blocks of the document,
\* there are at most two layout passes and never a third, and a pass opens at
\* most max(1, L) + B physical pages.
C22_Terminates == []C22_Bounds /\ [][C22_Step]_vars

\* generatePDF has returned a layout in which every block opened a page.
C22_Witness ==
  /\ pc = "returned"
  /\ TotalBlocks >= 2
  /\ Len(pages) = PageBound

\* ------------------------------------------------------------------ C23
\* The label describeMarginBracket returned for the page count P names the
\* bracket calculateMargins selects for P.
LabelNamesBracketOf(label, P) ==
  /\ labels[label].gutter = calculateMargins(P).inside
  /\ labels[label].to = INSIDE_MARGIN_BRACKETS[BracketIndex(P)].maxPages
  /\ P <= labels[label].to
  /\ P <= INSIDE_MARGIN_BRACKETS[1].maxPages => label = 1

\* C23: the marginsBracket label generatePDF returns names the bracket whose
\* inside margin the returned layout was laid out with; for every page count
\* P describeMarginBracket(P) names the bracket calculateMargins(P) selects
\* (same gutter), or both throw; every P <= 150, counts below 24 included, is
\* labelled with the first bracket.
C23_LabelNamesBracketUsed ==
  /\ pc = "returned" =>
       /\ labels[result.marginsBracket].gutter = layout.insideMarginIn
       /\ LabelNamesBracketOf(result.marginsBracket, pass1.pageCount)
  /\ Applied("describeMarginBracket") =>
       LET P == call.args[1]
           r == call.rets[1]
       IN IF MarginsThrows(P) THEN r = Thrown
          ELSE r # Thrown /\ LabelNamesBracketOf(r.value, P)

\* generatePDF has returned the layout of pass two, laid out with the gutter
\* of the second bracket, under the label of the second bracket.
C23_Witness ==
  /\ pc = "returned"
  /\ pass = 2
  /\ layout.insideMarginIn = 500
  /\ result.marginsBracket = 2

\* ------------------------------------------------------------------ C24
GeometryFlags ==
  {"trim_size_correct", "inside_margin_correct", "outside_margin_correct",
   "top_margin_correct", "bottom_margin_correct"}

RuleFlagNames ==
  GeometryFlags \cup {"fonts_embedded", "page_count_warning", "offer_page_present"}

\* The flags an input field has a say in
FlagsOf(field) ==
  CASE field = "pageDimensions" -> {"trim_size_correct"}
    [] field = "pageCount" -> {"inside_margin_correct", "page_count_warning"}
    [] field = "insideMarginIn" -> {"inside_margin_correct"}
    [] field = "outsideMarginIn" -> {"outside_margin_correct"}
    [] field = "topMarginIn" -> {"top_margin_correct"}
    [] field = "bottomMarginIn" -> {"bottom_margin_correct"}
    [] field = "fontsEmbedded" -> {"fonts_embedded"}
    [] field \in {"offerPagePresent", "outputMode"} -> {"offer_page_present"}

\* Less than one point away from the trim size in both dimensions
WithinTrim(dim) ==
  /\ dim[1] \in (TRIM_WIDTH_PT - 1 + 1)..(TRIM_WIDTH_PT + 1 - 1)
  /\ dim[2] \in (TRIM_HEIGHT_PT - 1 + 1)..(TRIM_HEIGHT_PT + 1 - 1)

\* Each geometry flag of the report is what its own threshold says of input.
OwnThresholds(input, report) ==
  /\ report.trim_size_correct <=>
       \A k \in 1..Len(input.pageDimensions) : WithinTrim(input.pageDimensions[k])
  /\ report.inside_margin_correct <=>
       input.insideMarginIn + 1 >= TableInside(input.pageCount)
  /\ report.outside_margin_correct <=> input.outsideMarginIn + 1 >= 250
  /\ report.top_margin_correct <=> input.topMarginIn + 1 >= 250
  /\ report.bottom_margin_correct <=> input.bottomMarginIn + 1 >= 250

\* C24: each geometry flag of checkCompliance is decided by its own
\* threshold: trim_size_correct iff every listed page is within 1pt (less
\* than one point away) of 432 x 648 in both dimensions,
\* inside_margin_correct iff the inside margin is at least the bracket's
\* inside margin less 0.001in, the outside, top and bottom flags iff that
\* margin is at least 0.250in less 0.001in; and between two inputs that
\* differ in one field no flag but that field's own differs.
C24_IndependentThresholds ==
  (Applied("checkCompliance") /\ call.rets[1] # Thrown /\ call.rets[2] # Thrown) =>
    LET a == call.args
        r == <<call.rets[1].value, call.rets[2].value>>
    IN /\ OwnThresholds(a[1], r[1])
       /\ OwnThresholds(a[2], r[2])
       /\ \A f \in DOMAIN a[1] :
            a[2] = [a[1] EXCEPT ![f] = a[2][f]] =>
              \A g \in RuleFlagNames \ FlagsOf(f) : r[1][g] = r[2][g]

\* Two inputs one thousandth apart in the inside margin only, on the two
\* sides of the tolerance, while the top margin fails and the outside margin
\* passes at its tolerance: only inside_margin_correct differs.
C24_Witness ==
  /\ Applied("checkCompliance")
  /\ call.args[1].insideMarginIn = 374
  /\ call.args[2] = [call.args[1] EXCEPT !.insideMarginIn = 373]
  /\ call.args[1].outsideMarginIn = 249
  /\ call.args[1].topMarginIn = 248
  /\ call.args[1].pageCount = 150
  /\ call.rets[1].value.inside_margin_correct
  /\ ~call.rets[2].value.inside_margin_correct
  /\ call.rets[1].value.outside_margin_correct
  /\ ~call.rets[1].value.top_margin_correct

\* ------------------------------------------------------------------ C25
\* renderBlock has been applied to a block of the given type.
Rendered(type) ==
  /\ Applied("renderBlock")
  /\ call.args[1].block.block_type = type

\* C25: renderBlock on a footnote block draws nothing, returns the cursor it
\* was given and leaves the context's pendingFootnotes as they were with that
\* block appended at the end.
C25_FootnoteIsDeferred ==
  Rendered("footnote") =>
    LET block == call.args[1].block
        ctx == call.args[1].ctx
        r == call.rets[1].value
    IN /\ r.lines = <<>>
       /\ r.cursor = ctx.cursor
       /\ Len(r.pendingFootnotes) = Len(ctx.pendingFootnotes) + 1
       /\ r.pendingFootnotes[Len(r.pendingFootnotes)] = block
       /\ SubSeq(r.pendingFootnotes, 1, Len(ctx.pendingFootnotes)) = ctx.pendingFootnotes

\* A footnote of one word has been rendered in a context that has a footnote
\* pending already.
C25_Witness ==
  /\ Rendered("footnote")
  /\ call.args[1].block.content = << <<2>> >>
  /\ call.args[1].ctx.pendingFootnotes = <<Footnote>>
  /\ Len(call.rets[1].value.pendingFootnotes) = 2

\* ------------------------------------------------------------------ C26
\* wrapText has been applied.
Wrapped == Applied("wrapText")

\* C26: wrapping the string of length 0 yields no line (not one empty
\* line), and wrapping one word wider than maxWidth yields one line that is
\* the whole word.
C26_WrapEdgeCases ==
  Wrapped =>
    LET a == call.args[1]
        lines == call.rets[1].value
    IN /\ a.text = <<>> => lines = <<>>
       /\ \A w \in 1..8 :
            (a.text = << <<w>> >> /\ 500 * w * a.size > 100 * a.maxWidth)
              => lines = << <<w>> >>

\* A word of eight glyphs, 44pt wide at body size, has been wrapped to 30pt.
C26_Witness ==
  /\ Wrapped
  /\ call.args[1] = [text |-> << <<8>> >>, size |-> 11, maxWidth |-> 300]
  /\ call.rets[1].value = << <<8>> >>

\* ------------------------------------------------------------------ C27
TextBearing ==
  {"heading", "body_text", "block_quote", "prompt_list", "action_list",
   "title", "subtitle", "imprint", "toc_entry"}

\* The font size a text-bearing renderer sets its block in, in points
SizeOf(type) ==
  CASE type = "heading" -> 14
    [] type = "title" -> 24
    [] type = "subtitle" -> 16
    [] type = "imprint" -> 10
    [] OTHER -> 11

\* The cursor returned is the starting y less the lines drawn, each 1.4
\* times the font size high, less the given spacing in points; it is below
\* the starting y.
AdvancedBy(spacing) ==
  LET start == call.args[1].ctx.cursor.y
      r == call.rets[1].value
      size == SizeOf(call.args[1].block.block_type)
  IN /\ 10 * (start - r.cursor.y) = Len(r.lines) * size * 14 * 10 + spacing * 100
     /\ r.cursor.y < start

\* The claim as it was made: the same spacing, BLOCK_SPACING, for all nine.
C27_Original ==
  \A type \in TextBearing : Rendered(type) => AdvancedBy(8)

\* C27: every text-bearing renderer returns a cursor whose y is the starting
\* y less (number of wrapped lines x line height of its face and size) less a
\* fixed spacing, which is the inter-block spacing constant of 8pt for
\* heading, body text, block quote, prompt list, action list, subtitle and
\* imprint, twice that constant for title and 4pt for table-of-contents
\* entry; the returned y is strictly below the starting y for any content,
\* empty content included.
C27_CursorAdvance ==
  \A type \in TextBearing :
    Rendered(type) =>
      AdvancedBy(CASE type = "title" -> 16 [] type = "toc_entry" -> 4 [] OTHER -> 8)

\* A table-of-contents entry of no content has been rendered: no line, and
\* the cursor 4pt lower.
C27_Witness ==
  /\ Rendered("toc_entry")
  /\ call.args[1].block.content = <<>>
  /\ call.rets[1].value.lines = <<>>
  /\ call.rets[1].value.cursor.y = call.args[1].ctx.cursor.y - 40

\* ------------------------------------------------------------------ C28
\* The words of a paragraph: its tokens that are not empty
WordsOf(paragraph) == SelectSeq(paragraph, LAMBDA w : w > 0)

RECURSIVE Concatenated(_)
Concatenated(lines) ==
  IF lines = <<>> THEN <<>> ELSE Head(lines) \o Concatenated(Tail(lines))

\* The lines are a greedy wrap of the words of one paragraph: the words in
\* their order, every line within maxWidth or of a single word, and no line
\* with room for the first word of the next; a paragraph without words gives
\* one empty line.
WrapOfParagraph(lines, words, size, maxWidth) ==
  IF words = <<>> THEN lines = << <<>> >>
  ELSE /\ Concatenated(lines) = words
       /\ \A j \in 1..Len(lines) :
            /\ lines[j] # <<>>
            /\ Fits(lines[j], size, maxWidth) \/ Len(lines[j]) = 1
       /\ \A j \in 1..(Len(lines) - 1) :
            ~Fits(Append(lines[j], lines[j + 1][1]), size, maxWidth)

\* The lines fall into one run of lines for each paragraph, in order.
RECURSIVE WrapOfText(_, _, _, _)
WrapOfText(lines, paragraphs, size, maxWidth) ==
  IF paragraphs = <<>> THEN lines = <<>>
  ELSE \E j \in 1..Len(lines) :
         /\ WrapOfParagraph(SubSeq(lines, 1, j), WordsOf(Head(paragraphs)),
                            size, maxWidth)
         /\ WrapOfText(SubSeq(lines, j + 1, Len(lines)), Tail(paragraphs),
                       size, maxWidth)

\* C28: wrapText is a greedy word-wrap: the output lines, concatenated, are
\* the words of the input in their order, none lost or duplicated; every
\* explicit line break starts a new line; every line fits within maxWidth or
\* is a single word.
C28_GreedyWrap ==
  Wrapped =>
    LET a == call.args[1]
        lines == call.rets[1].value
    IN /\ WrapOfText(lines, a.text, a.size, a.maxWidth)
       /\ Concatenated(lines) = Concatenated([k \in 1..Len(a.text) |-> WordsOf(a.text[k])])

\* Two paragraphs have been wrapped to 30pt at body size: three short words
\* on two lines, then a word too wide on a line of its own and a short word
\* after a doubled space.
C28_Witness ==
  /\ Wrapped
  /\ call.args[1] = [text |-> <<<<2, 2, 2>>, <<8, 0, 2>>>>, size |-> 11,
                     maxWidth |-> 300]
  /\ call.rets[1].value = <<<<2, 2>>, <<2>>, <<8>>, <<2>>>>

\* ------------------------------------------------------------------ C29
\* The pass in work lays out, or renderLayout has thrown out of it.
PassOpen ==
  \/ pc = "layout"
  \/ "at" \in DOMAIN result /\ result.at = "renderLayout"

\* The pages of the pass in work but the last are finalized, each once and
\* with its footnotes drawn before its number; the last is not finalized
\* while the pass lays out and is once the pass has returned.
C29_Pages ==
  /\ \A p \in 1..Len(pages) :
       /\ pages[p].finalized =
            (IF p = Len(pages) /\ PassOpen THEN 0 ELSE 1)
       /\ pages[p].closing =
            (IF pages[p].finalized = 0 THEN <<>>
             ELSE <<"renderPageFootnotes", "drawPageNumber">>)
  /\ LayoutDone => Len(pages) >= 1

\* Within a pass a finalized page is never touched again, and the open page
\* is finalized either when the next page is opened or, at the end of the
\* pass, after the last block of the last logical page.
C29_Step ==
  (pc = "layout" /\ pass' = pass /\ pages # <<>>) =>
    LET n == Len(pages)
    IN /\ Len(pages') \in {n, n + 1}
       /\ SubSeq(pages', 1, n - 1) = SubSeq(pages, 1, n - 1)
       /\ pages'[n].drawn # pages[n].drawn => pages[n].finalized = 0
       /\ pages'[n].finalized # pages[n].finalized =>
            \/ Len(pages') = n + 1
            \/ /\ pc' # "layout"
               /\ di = Len(document.front_matter) + Len(document.content_pages)
               /\ AtPageEnd
       /\ Len(pages') = n + 1 =>
            /\ pages'[n].finalized = 1
            /\ pages'[n].drawn = pages[n].drawn

\* C29: every physical page is finalized exactly once, in creation order,
\* its footnotes flushed before its page number is drawn; the last page is
\* finalized after the last block of the last logical page, also when the
\* document has no logical page and the layout is one page; no block is
\* drawn on a page after the page has been finalized.
C29_FinalizedOnceInOrder == []C29_Pages /\ [][C29_Step]_vars

\* generatePDF has returned three finalized pages, a footnote drained on one
\* that is not the last.
C29_Witness ==
  /\ pc = "returned"
  /\ Len(pages) = 3
  /\ \E p \in 1..2 : pages[p].footnotes # <<>>
  /\ \A p \in 1..3 : pages[p].finalized = 1

\* ------------------------------------------------------------------ C30
\* The step opens a physical page: the first of a pass, or one more.
PageOpened ==
  \/ pass' # pass /\ pc' = "layout"
  \/ pass' = pass /\ Len(pages') = Len(pages) + 1

\* The page a step opens is opened with the cursor at the top-left of the
\* content area and nothing pending: after the step the cursor is there and
\* nothing is pending, unless the step went on to render a block, which then
\* starts at the top, and what is pending then is what that block queued.
C30_Step ==
  PageOpened =>
    LET new == pages'[Len(pages')]
    IN /\ new.cursorAtOpen = TopCursor'
       /\ new.footnotes = <<>>
       /\ BlockIds(pendingFootnotes') = new.queued
       /\ Len(new.drawn) + Len(new.queued) <= 1
       /\ new.drawn = <<>> => cursor' = TopCursor'
       /\ new.drawn # <<>> => new.drawn[1].y0 = contentTopY'

\* What is pending was queued on the open page, and a finalized page has
\* drawn the footnotes queued on it and no other.
C30_Context ==
  /\ pages = <<>> => pendingFootnotes = <<>>
  /\ \A p \in 1..Len(pages) :
       /\ pages[p].cursorAtOpen = TopCursor
       /\ IF pages[p].finalized = 0
          THEN BlockIds(pendingFootnotes) = pages[p].queued
          ELSE pages[p].footnotes = pages[p].queued

\* C30: the render context lives for one physical page: whenever a physical
\* page is opened, by a new logical page, a page break or an overflow, the
\* cursor is at the top-left of the content area and pendingFootnotes is
\* empty, so no footnote queued on one physical page is carried to another.
C30_ContextPerPage == []C30_Context /\ [][C30_Step]_vars

\* A page break has just opened a page after a page on which a footnote was
\* queued: the cursor is at the top-left and nothing is pending.
C30_Witness ==
  /\ pc = "layout"
  /\ Len(pages) >= 2
  /\ pages[Len(pages)].openedBy = "break"
  /\ pages[Len(pages)].drawn = <<>>
  /\ pages[Len(pages) - 1].queued # <<>>
  /\ pages[Len(pages) - 1].footnotes = pages[Len(pages) - 1].queued
  /\ cursor = TopCursor
  /\ pendingFootnotes = <<>>

\* ------------------------------------------------------------------ C31
\* The classical numeral of a digit d of weight one, ten or a hundred, written
\* with the letters one, five and ten of that weight
Digit(d, one, five, ten) ==
  CASE d = 0 -> <<>>
    [] d = 1 -> <<one>>
    [] d = 2 -> <<one, one>>
    [] d = 3 -> <<one, one, one>>
    [] d = 4 -> <<one, five>>
    [] d = 5 -> <<five>>
    [] d = 6 -> <<five, one>>
    [] d = 7 -> <<five, one, one>>
    [] d = 8 -> <<five, one, one, one>>
    [] d = 9 -> <<one, ten>>

\* The lowercase classical numeral of n in 1..3999, digit by digit
Classical(n) ==
  [k \in 1..(n \div 1000) |-> "m"]
  \o Digit((n \div 100) % 10, "c", "d", "m")
  \o Digit((n \div 10) % 10, "x", "l", "c")
  \o Digit(n % 10, "i", "v", "x")

LetterValue(c) ==
  CASE c = "i" -> 1 [] c = "v" -> 5 [] c = "x" -> 10 [] c = "l" -> 50
    [] c = "c" -> 100 [] c = "d" -> 500 [] c = "m" -> 1000

\* The number a numeral reads as: a letter in front of a greater one is
\* subtracted, any other is added.
RECURSIVE Decode(_)
Decode(numeral) ==
  IF numeral = <<>> THEN 0
  ELSE IF Len(numeral) >= 2 /\ LetterValue(numeral[1]) < LetterValue(numeral[2])
       THEN Decode(Tail(numeral)) - LetterValue(numeral[1])
       ELSE Decode(Tail(numeral)) + LetterValue(numeral[1])

\* C31: toRoman renders every n in 1..828 as the lowercase classical numeral
\* with the subtractive pairs iv, ix, xl, xc, cd, cm: the result decodes back
\* to n, distinct n give distinct strings, and n <= 0 gives the empty string.
C31_ClassicalNumerals ==
  Applied("toRoman") =>
    /\ \A k \in 1..2 :
         LET n == call.args[k]
             numeral == call.rets[k].value
         IN IF n <= 0 THEN numeral = <<>>
            ELSE /\ numeral = Classical(n)
                 /\ Decode(numeral) = n
                 /\ numeral # <<>>
    /\ call.rets[1].value # call.rets[2].value \/ call.args[2] <= 0

\* toRoman has been applied to 499 and to 500.
C31_Witness ==
  /\ Applied("toRoman")
  /\ call.args = <<499, 500>>
  /\ call.rets[1].value = <<"c", "d", "x", "c", "i", "x">>
  /\ call.rets[2].value = <<"d">>

\* ------------------------------------------------------------------ C32
\* L: the number of logical pages of the document
LogicalPages == Len(document.front_matter) + Len(document.content_pages)

\* The page_break blocks of the document
PageBreaksOfDoc ==
  {id \in UNION {{<<d, b>> : b \in 1..Len(allDocPages[d].blocks)} :
                   d \in 1..Len(allDocPages)} :
     BlockAt(id).block_type = "page_break"}

\* The physical pages an overflow opened
OverflowPages == {p \in 1..Len(pages) : pages[p].openedBy = "overflow"}

\* The logical pages of a style, and the overflows inside them
LogicalOfStyle(style) ==
  {d \in 1..Len(allDocPages) : PageStyleOf(allDocPages[d]) = style}

OverflowsInStyle(style) ==
  {p \in OverflowPages : pages[p].logical \in LogicalOfStyle(style)}

\* C32: when a layout pass is done the number of physical pages is
\* max(1, L) + (page_break blocks) + (overflow events); suppressed pages
\* draw no number and are counted like any other page; the Roman and the
\* Arabic counter end at (logical pages of that style) + (overflow events
\* inside logical pages of that style).
C32_PageCountAccounting ==
  LayoutDone =>
    /\ pdfPageCount = (IF LogicalPages = 0 THEN 1 ELSE LogicalPages)
                       + Cardinality(PageBreaksOfDoc) + Cardinality(OverflowPages)
    /\ Len(pages) = pdfPageCount
    /\ \A p \in 1..Len(pages) :
         pages[p].style = "suppressed" <=> ~pages[p].numbered
    /\ romanCounter = Cardinality(LogicalOfStyle("roman"))
                       + Cardinality(OverflowsInStyle("roman"))
    /\ arabicCounter = Cardinality(LogicalOfStyle("arabic"))
                        + Cardinality(OverflowsInStyle("arabic"))

\* generatePDF has returned three pages for one suppressed logical page with
\* an overflow and a page break: none is numbered and both counters are 0.
C32_Witness ==
  /\ pc = "returned"
  /\ LogicalPages = 1
  /\ Len(pages) = 3
  /\ Cardinality(OverflowPages) = 1
  /\ Cardinality(PageBreaksOfDoc) = 1
  /\ \A p \in 1..3 : pages[p].style = "suppressed" /\ ~pages[p].numbered
  /\ romanCounter = 0
  /\ arabicCounter = 0

\* ------------------------------------------------------------------ C33
\* The page has been finalized with the given style.
FinalizedAs(p, style) == pages[p].finalized = 1 /\ pages[p].style = style

\* The last page at or before p finalized with the style; 0 when none is
RECURSIVE LastOfStyle(_, _)
LastOfStyle(p, style) ==
  IF p = 0 THEN 0
  ELSE IF FinalizedAs(p, style) THEN p
  ELSE LastOfStyle(p - 1, style)

\* C33: a page finalized with Roman or Arabic style displays a counter of
\* at least 1, never 0 nor an empty numeral; along the finalized pages of
\* one style the number displayed never decreases, never skips a value, and
\* repeats only on a page opened by an explicit page break.
C33_DisplayedNumbers ==
  \A q \in 1..Len(pages) :
    \A style \in {"roman", "arabic"} :
      FinalizedAs(q, style) =>
        /\ pages[q].numbered
        /\ pages[q].numDisplay >= 1
        /\ style = "roman" => toRoman(pages[q].numDisplay) # <<>>
        /\ LET p == LastOfStyle(q - 1, style)
           IN IF p = 0 THEN TRUE
              ELSE /\ pages[q].numDisplay \in
                        {pages[p].numDisplay, pages[p].numDisplay + 1}
                   /\ pages[q].numDisplay = pages[p].numDisplay
                        => pages[q].openedBy = "break"

\* Roman pages numbered i, i, ii have been finalized around an Arabic page:
\* the number repeats after a page break and goes on after the Arabic page.
C33_Witness ==
  /\ Len(pages) >= 4
  /\ \E a, b, c, d \in 1..Len(pages) :
       /\ a < b /\ b < c /\ c < d
       /\ FinalizedAs(a, "roman") /\ pages[a].numDisplay = 1
       /\ FinalizedAs(b, "roman") /\ pages[b].numDisplay = 1
       /\ pages[b].openedBy = "break"
       /\ FinalizedAs(c, "arabic")
       /\ FinalizedAs(d, "roman") /\ pages[d].numDisplay = 2

\* ------------------------------------------------------------------ C34
\* The identities of the blocks a physical page holds: drawn in the flow,
\* queued as footnotes, drawn as footnotes when the page was finalized.
BlockIdsOn(p) ==
  {pages[p].drawn[i].id : i \in 1..Len(pages[p].drawn)}
  \cup {pages[p].queued[i] : i \in 1..Len(pages[p].queued)}
  \cup {pages[p].footnotes[i] : i \in 1..Len(pages[p].footnotes)}

\* C34: every physical page holds blocks of one logical page only; the
\* physical pages follow the logical pages in order, and the first physical
\* page of every logical page after the first is one opened for it by the
\* loop over the logical pages, whatever its starts_new_page flag says; the
\* physical pages of a logical page without page_number_style are Arabic
\* pages and display the Arabic counter when finalized.
C34_LogicalPagesApart ==
  \A p \in 1..Len(pages) :
    LET d == pages[p].logical
    IN /\ \A id \in BlockIdsOn(p) : id[1] = d
       /\ p = 1 => d \in {0, 1} /\ pages[p].openedBy = "initial"
       /\ p > 1 =>
            /\ pages[p].openedBy \in {"logical", "break", "overflow"}
            /\ d = pages[p - 1].logical
                   + (IF pages[p].openedBy = "logical" THEN 1 ELSE 0)
            /\ pages[p].openedBy = "logical" =>
                 /\ d >= 2
                 /\ pages[p].cursorAtOpen = TopCursor
       /\ p = Len(pages) /\ PassOpen /\ pc = "layout" => d = di
       /\ d >= 1 /\ allDocPages[d].page_number_style = Undefined =>
            /\ pages[p].style = "arabic"
            /\ pages[p].finalized = 1 =>
                 pages[p].numbered /\ pages[p].numDisplay >= 1

\* generatePDF has returned three pages for a Roman page and two pages that
\* say starts_new_page: false, the second of these without
\* page_number_style and numbered 1 as an Arabic page.
C34_Witness ==
  /\ pc = "returned"
  /\ Len(allDocPages) = 3
  /\ \A d \in 2..3 : allDocPages[d].starts_new_page = FALSE
  /\ allDocPages[2].page_number_style = Undefined
  /\ Len(pages) = 3
  /\ \A p \in 1..3 : pages[p].logical = p /\ BlockIdsOn(p) # {}
  /\ pages[2].style = "arabic" /\ pages[2].numDisplay = 1
  /\ pages[3].numDisplay = 2

\* ------------------------------------------------------------------ C35
\* Both calls of the caller have settled.
BothModesDone == call # None /\ pc \in {"returned", "failed"}

HasReturned(r) == "pageCount" \in DOMAIN r

\* Style and number of every page of a layout
Numbering(pp) ==
  [p \in 1..Len(pp) |->
     [style |-> pp[p].style, numbered |-> pp[p].numbered,
      numDisplay |-> pp[p].numDisplay]]

ModeFreeFields ==
  {"trim_size_correct", "inside_margin_correct", "outside_margin_correct",
   "top_margin_correct", "bottom_margin_correct", "fonts_embedded",
   "page_count", "page_count_warning"}

WithoutOffer(violations) == SelectSeq(violations, LAMBDA v : v # "offer")

\* C35: generatePDF returns for a document in publish-ready mode exactly
\* when it returns for it in personal mode, and then with the same page
\* count, the same margins, the same bracket label and the same style and
\* number on every page; the two reports agree on every field but
\* offer_page_present, the offer-page violation and passes, and passes
\* differs only through the offer-page violation.
C35_ModeIndependence ==
  BothModesDone =>
    LET first == call.rets[1]
        report1 == first.result.complianceResult
        report2 == result.complianceResult
    IN /\ HasReturned(result) <=> HasReturned(first.result)
       /\ HasReturned(result) =>
            /\ call.args = <<document, "personal">>
            /\ outputMode = "publish-ready"
            /\ result.pageCount = first.result.pageCount
            /\ result.pdfPages = first.result.pdfPages
            /\ margins = first.margins
            /\ result.marginsBracket = first.result.marginsBracket
            /\ Numbering(pages) = Numbering(first.pages)
            /\ \A f \in ModeFreeFields : report2[f] = report1[f]
            /\ WithoutOffer(report2.violations)
                 = WithoutOffer(report1.violations)
            /\ report2.passes
                 <=> report1.passes /\ report2.violations = report1.violations

\* A document laid out in two passes has been returned in both modes, with
\* reports that differ in offer_page_present and in their violations.
C35_Witness ==
  /\ BothModesDone
  /\ HasReturned(result)
  /\ pass = 2
  /\ result.pageCount > INSIDE_MARGIN_BRACKETS[1].maxPages
  /\ call.rets[1].result.complianceResult.offer_page_present
  /\ ~result.complianceResult.offer_page_present
  /\ result.complianceResult.violations
       # call.rets[1].result.complianceResult.violations

\* ------------------------------------------------------------------ C36
\* C36: in the report of every generatePDF call that returns,
\* trim_size_correct, outside_margin_correct, top_margin_correct,
\* bottom_margin_correct and fonts_embedded are true and page_count is the
\* returned pageCount; the only violations are the inside margin's and, in
\* publish-ready mode, the missing offer page's, and passes is false exactly
\* when one of the two is there.
C36_ReportOfGeneratePDF ==
  pc = "returned" =>
    LET report == result.complianceResult
    IN /\ report.trim_size_correct
       /\ report.outside_margin_correct
       /\ report.top_margin_correct
       /\ report.bottom_margin_correct
       /\ report.fonts_embedded
       /\ report.page_count = result.pageCount
       /\ report.page_count = Len(pages)
       /\ \A i \in 1..Len(report.violations) :
            \/ report.violations[i] = "inside" /\ ~report.inside_margin_correct
            \/ /\ report.violations[i] = "offer"
               /\ outputMode = "publish-ready"
               /\ ~hasOfferPage(document)
       /\ ~report.passes <=>
            \/ ~report.inside_margin_correct
            \/ outputMode = "publish-ready" /\ ~hasOfferPage(document)

\* generatePDF has returned the layout of pass two in personal mode with a
\* failing report, its only violation the inside margin's.
C36_Witness ==
  /\ pc = "returned"
  /\ pass = 2
  /\ outputMode = "personal"
  /\ ~result.complianceResult.passes
  /\ result.complianceResult.violations = <<"inside">>
  /\ result.complianceResult.page_count = result.pageCount

\* ------------------------------------------------------------------ C37
\* The separator rule drawn on the page
RuleY(p) == pages[p].footnoteMarks[1].y

\* A block of the flow that drew a line on the page begins below the
\* separator rule.
FlowBelowRule(p) ==
  \E i \in 1..Len(pages[p].drawn) :
    pages[p].drawn[i].lines > 0 /\ pages[p].drawn[i].y0 < RuleY(p)

\* C37: on a finalized page with footnotes the separator rule and the
\* baseline of every footnote line lie at or below the overflow threshold
\* contentFloorY and above the baseline of the page number, and no block of
\* the flow that drew a line on the page begins below the separator rule.
C37_FootnotesInReservedSpace ==
  \A p \in 1..Len(pages) :
    (pages[p].finalized = 1 /\ Len(pages[p].footnotes) >= 1) =>
      /\ Len(pages[p].footnoteMarks) >= 2
      /\ pages[p].footnoteMarks[1].mark = "rule"
      /\ \A k \in 1..Len(pages[p].footnoteMarks) :
           /\ pages[p].footnoteMarks[k].y <= contentFloorY
           /\ pages[p].footnoteMarks[k].y > pageNumberY
      /\ ~FlowBelowRule(p)
====
